---- MODULE Spec2Model ----
(***************************************************************************)
(* Banding correction of the X-ray GUI (experiments/                       *)
(* correct_banding_dark_pixels.py, experiments/banding_fixer.py).          *)
(*                                                                         *)
(* Samples of an image are integers (uint16).  Values of the float arrays  *)
(* (profiles, residuals, corrected samples) are exact rationals [n, d]     *)
(* in lowest terms with d > 0; d = 0 encodes the IEEE specials: 0/0 is     *)
(* NaN, 1/0 is +inf.  The rounding of float32 arithmetic is not modelled:  *)
(* the specification states the profiles "as reals".                       *)
(* A standard deviation is carried as its square (the variance).           *)
(***************************************************************************)
EXTENDS Integers, Sequences, FiniteSets, TLC

VARIABLES
    heap,       \* address -> the array stored there (<<>> when free)
    original,   \* the caller's image as it was when the caller made it
    ret,        \* what the last call returned to the caller
    profile,    \* the profile handed to moving_average_1d
    win,        \* the window handed to moving_average_1d
    height,     \* the image height the default candidates are made for
    gui,        \* the application's banding state read by process_frame
    trace,      \* what the last process_frame call did, in order
    calls,      \* the calls of the core functions running side by side
    save,       \* the debounced settings save of the application
    viewport,   \* the zoom and pan state of an ImageViewport
    server      \* the camera REP server and the messages it has exchanged

vars == <<heap, original, ret, profile, win, height, gui, trace,
          calls, save, viewport, server>>

(* The state of the parts of the application outside the banding code. *)
others == <<calls, save, viewport, server>>

(* The variables a call of the core functions never touches. *)
apart == <<height, gui, trace, others>>

----------------------------------------------------------------------------
(* Bounds of the model. *)

MaxH == 2       \* rows of an image
MaxN == 4       \* length of a profile smoothed directly
MaxWin == 5     \* largest smoothing window a caller passes
MaxHeight == 2100   \* tallest image the default candidates are made for
MaxPasses == 3      \* passes of correct over its own output
MaxTime == 3        \* ticks of the clock the settings save reads
MaxRequests == 3    \* requests the camera server is sent

(* Program constants. *)

SampleMax == 65535
SmoothFloor == 3
DefaultThreshold == 5

----------------------------------------------------------------------------
(* Exact rational arithmetic standing for the float arrays. *)

Abs(i) == IF i < 0 THEN -i ELSE i

RECURSIVE GCD(_, _)
GCD(a, b) == IF b = 0 THEN a ELSE GCD(b, a % b)

LCM(a, b) == (a \div GCD(a, b)) * b

Rat(n, d) ==
    LET g == GCD(Abs(n), d)
    IN  [n |-> n \div g, d |-> d \div g]

NaN == [n |-> 0, d |-> 0]
Inf == [n |-> 1, d |-> 0]
Zero == [n |-> 0, d |-> 1]

IsNaN(a) == a.d = 0 /\ a.n = 0
IsFinite(a) == a.d > 0

FromInt(i) == [n |-> i, d |-> 1]

RNeg(a) == [n |-> -a.n, d |-> a.d]

RAdd(a, b) ==
    IF IsFinite(a) /\ IsFinite(b)
    THEN LET l == LCM(a.d, b.d)
         IN  Rat(a.n * (l \div a.d) + b.n * (l \div b.d), l)
    ELSE IF IsNaN(a) \/ IsNaN(b) \/ (a.d = 0 /\ b.d = 0 /\ a.n # b.n) THEN NaN
    ELSE IF a.d = 0 THEN a ELSE b

RSub(a, b) == RAdd(a, RNeg(b))

RMul(a, b) ==
    IF IsFinite(a) /\ IsFinite(b)
    THEN LET g1 == GCD(Abs(a.n), b.d)
             g2 == GCD(Abs(b.n), a.d)
         IN  [n |-> (a.n \div g1) * (b.n \div g2),
              d |-> (a.d \div g2) * (b.d \div g1)]
    ELSE NaN

RDivInt(a, k) == IF IsFinite(a) THEN Rat(a.n, a.d * k) ELSE a

(* a < b; every comparison with NaN is false, as in IEEE arithmetic. *)
RLess(a, b) ==
    IF IsNaN(a) \/ IsNaN(b) THEN FALSE
    ELSE IF a.d = 0 /\ b.d = 0 THEN a.n < b.n
    ELSE IF a.d = 0 THEN a.n < 0
    ELSE IF b.d = 0 THEN b.n > 0
    ELSE LET l == LCM(a.d, b.d)
         IN  a.n * (l \div a.d) < b.n * (l \div b.d)

(* Body applied to the value of e.  TLC evaluates e once and binds the     *)
(* value; a LET would evaluate e again at every use inside a function.     *)
Bind(e, Body(_)) == CHOOSE r \in {Body(v) : v \in {e}} : TRUE

RECURSIVE LcmSet(_)
LcmSet(S) ==
    IF S = {} THEN 1
    ELSE LET d == CHOOSE d \in S : TRUE IN LCM(d, LcmSet(S \ {d}))

(* The sum of the numerators of s[lo..hi] over the denominator l, by       *)
(* halving the range.                                                      *)
RECURSIVE NumRange(_, _, _, _)
NumRange(s, lo, hi, l) ==
    IF lo > hi THEN 0
    ELSE IF lo = hi THEN s[lo].n * (l \div s[lo].d)
    ELSE LET mid == (lo + hi) \div 2
         IN  NumRange(s, lo, mid, l) + NumRange(s, mid + 1, hi, l)

(* The sum of a sequence of floats; NaN as soon as one element is not finite. *)
Sum(s) ==
    Bind(s, LAMBDA v :
        IF \E i \in 1..Len(v) : ~IsFinite(v[i]) THEN NaN
        ELSE Bind(LcmSet({v[i].d : i \in 1..Len(v)}), LAMBDA l :
                 Rat(NumRange(v, 1, Len(v), l), l)))

----------------------------------------------------------------------------
(* moving_average_1d.  A call that raises returns Raised. *)

Raised == [ok |-> FALSE, v |-> <<>>]

Ok(v) == [ok |-> TRUE, v |-> v]

(* x.astype(np.float32): a new array with every element as a float. *)
AsTypeF32(x) == [i \in 1..Len(x) |-> x[i]]

(* The padding as mode="constant" would do it: zeros at both ends. *)
PadEdge_zeros(x, left, right) ==
    IF left < 0 \/ right < 0 THEN Raised
    ELSE Ok([i \in 1..(left + Len(x) + right) |->
                IF i <= left \/ i > left + Len(x) THEN Zero ELSE x[i - left]])

(* np.pad(x, (left, right), mode="edge"): the first element repeated left   *)
(* times, x, the last element repeated right times.  numpy raises           *)
(* ValueError for a negative pad width and for an empty x that is to be     *)
(* extended.                                                                *)
PadEdge(x, left, right) ==
    IF left < 0 \/ right < 0 \/ (Len(x) = 0 /\ left + right > 0) THEN Raised
    ELSE Ok([i \in 1..(left + Len(x) + right) |->
                IF i <= left THEN x[1]
                ELSE IF i <= left + Len(x) THEN x[i - left]
                ELSE x[Len(x)]])

(* The elements of a sequence of floats as numerators over the common      *)
(* denominator d (0 for an element that is not finite).                    *)
CommonDen(s) == LcmSet({s[i].d : i \in 1..Len(s)} \ {0})

Numerators(s, d) ==
    [i \in 1..Len(s) |-> IF IsFinite(s[i]) THEN s[i].n * (d \div s[i].d) ELSE 0]

(* The sum over j in lo..hi of an[i + j - 1] * kn[Len(kn) + 1 - j], by      *)
(* halving the range.                                                      *)
RECURSIVE DotRange(_, _, _, _, _)
DotRange(an, kn, i, lo, hi) ==
    IF lo = hi THEN an[i + lo - 1] * kn[Len(kn) + 1 - lo]
    ELSE LET mid == (lo + hi) \div 2
         IN  DotRange(an, kn, i, lo, mid) + DotRange(an, kn, i, mid + 1, hi)

(* Element i of the valid convolution of a with the shorter k: the sum over *)
(* j of a[i + j - 1] * k[Len(k) + 1 - j] (the kernel is flipped); NaN when  *)
(* a term is not finite.                                                    *)
Correlate(a, k) ==
    Bind(CommonDen(a), LAMBDA da :
    Bind(CommonDen(k), LAMBDA dk :
    Bind(Numerators(a, da), LAMBDA an :
    Bind(Numerators(k, dk), LAMBDA kn :
    Bind({i \in 1..Len(a) : ~IsFinite(a[i])}, LAMBDA bad :
    Bind(\E j \in 1..Len(k) : ~IsFinite(k[j]), LAMBDA badk :
        [i \in 1..(Len(a) - Len(k) + 1) |->
            IF badk \/ bad \cap (i..(i + Len(k) - 1)) # {} THEN NaN
            ELSE Rat(DotRange(an, kn, i, 1, Len(k)), da * dk)]))))))

(* np.convolve(a, k, mode="valid"): raises ValueError when a or k is empty; *)
(* the longer of the two is the signal.                                     *)
ConvolveValid(a, k) ==
    IF Len(a) = 0 \/ Len(k) = 0 THEN Raised
    ELSE IF Len(k) > Len(a) THEN Ok(Correlate(k, a))
    ELSE Ok(Correlate(a, k))

(* np.ones(win) / win *)
BoxKernel(w) == [j \in 1..w |-> Rat(1, w)]

(* The left pad were the extra sample of an even window on the right. *)
PadLeft_right(w) == (w - 1) \div 2

PadLeft(w) == w \div 2

(* The right pad without the "- 1": the output one element too long. *)
PadRight_full(w) == w - PadLeft(w)

PadRight(w) == w - 1 - PadLeft(w)

(* The floor one too low: a window of 2 is smoothed. *)
BelowFloor_two(w) == w < SmoothFloor - 1

BelowFloor(w) == w < SmoothFloor

moving_average_1d(x, w) ==
    Bind(AsTypeF32(x), LAMBDA xf :
        IF BelowFloor(w) THEN Ok(xf)
        ELSE Bind(BoxKernel(w), LAMBDA k :
             Bind(PadEdge(xf, PadLeft(w), PadRight(w)), LAMBDA xp :
                 IF xp.ok THEN ConvolveValid(xp.v, k) ELSE Raised)))

----------------------------------------------------------------------------
(* Arrays.  A 2-D array is [h, w, px] with px[r][c] the element of row r,  *)
(* column c (both from 1).                                                 *)

Array2(h, w, dtype, f(_, _)) ==
    [h |-> h, w |-> w, dtype |-> dtype,
     px |-> [r \in 1..h |-> [c \in 1..w |-> f(r, c)]]]

(* img_u16.astype(np.float32) of an image: a new array of floats. *)
AsTypeF32Img(a) == Array2(a.h, a.w, "float32", LAMBDA r, c : FromInt(a.px[r][c]))

(* A bound of a Python slice over an axis of length len: a negative index  *)
(* counts from the end, and what is still outside is clamped to the axis.  *)
SliceIndex(i, len) ==
    IF i < 0 THEN (IF i + len < 0 THEN 0 ELSE i + len)
    ELSE IF i > len THEN len ELSE i

(* a[:, start:stop] *)
ColSlice(a, start, stop) ==
    LET lo == SliceIndex(start, a.w)
        hi == SliceIndex(stop, a.w)
        m  == IF hi > lo THEN hi - lo ELSE 0
    IN  Array2(a.h, m, a.dtype, LAMBDA r, c : a.px[r][lo + c])

(* The stripe taken from the right edge whatever the offset. *)
ColStart_noOffset(w, black_offset, black_w) == w - black_w

(* img.shape[1] - black_offset - black_w *)
ColStart(w, black_offset, black_w) == w - black_offset - black_w

ColEnd(w, black_offset) == w - black_offset

(* The k-th smallest element of a sequence of finite floats. *)
KthSmallest(s, k) ==
    LET i == CHOOSE i \in 1..Len(s) :
                 /\ Cardinality({j \in 1..Len(s) : RLess(s[j], s[i])}) < k
                 /\ Cardinality({j \in 1..Len(s) : ~RLess(s[i], s[j])}) >= k
    IN  s[i]

(* np.median of a 1-D array: NaN for an empty array or one holding a NaN,  *)
(* the middle element of the sorted array, the mean of the two middle ones *)
(* for an even length.                                                     *)
Median(s) ==
    IF Len(s) = 0 \/ \E i \in 1..Len(s) : ~IsFinite(s[i]) THEN NaN
    ELSE IF Len(s) % 2 = 1 THEN KthSmallest(s, (Len(s) + 1) \div 2)
    ELSE RDivInt(RAdd(KthSmallest(s, Len(s) \div 2),
                      KthSmallest(s, Len(s) \div 2 + 1)), 2)

(* np.median(a, axis=1) *)
MedianRows(a) == [r \in 1..a.h |-> Bind(a.px[r], LAMBDA row : Median(row))]

(* np.std of a 1-D array, as its square: the mean of the squared           *)
(* deviations from the mean; NaN for an empty array or one holding a NaN.  *)
Std(s) ==
    IF Len(s) = 0 \/ \E i \in 1..Len(s) : ~IsFinite(s[i]) THEN NaN
    ELSE Bind(RDivInt(Sum(s), Len(s)), LAMBDA mean :
         Bind([i \in 1..Len(s) |-> RSub(s[i], mean)], LAMBDA dev :
             RDivInt(Sum([i \in 1..Len(s) |-> RMul(dev[i], dev[i])]), Len(s))))

(* The comparison as <=: a later candidate takes a tie. *)
StdLess_orEqual(a, b) == ~RLess(b, a)

(* std_a < std_b, both given as squares. *)
StdLess(a, b) == RLess(a, b)

(* The comparison as >=: banding reported at the threshold itself. *)
StdGreater_orEqual(std2, threshold) ==
    IF IsNaN(std2) THEN FALSE
    ELSE IF threshold.n < 0 THEN TRUE
    ELSE ~RLess(std2, RMul(threshold, threshold))

(* std > threshold, the standard deviation given as its square. *)
StdGreater(std2, threshold) ==
    IF IsNaN(std2) THEN FALSE
    ELSE IF threshold.n < 0 THEN TRUE
    ELSE RLess(RMul(threshold, threshold), std2)

(* The comparison as >=: a warning at exactly three tenths. *)
StdGreaterThanThreeTenths_orEqual(a, b) ==
    IsFinite(a) /\ IsFinite(b) /\ ~RLess(a, RMul(Rat(9, 100), b))

(* std_a > std_b * 0.3, both given as squares. *)
StdGreaterThanThreeTenths(a, b) == RLess(RMul(Rat(9, 100), b), a)

(* ref - ref_slow *)
VSub(a, b) == [i \in 1..Len(a) |-> RSub(a[i], b[i])]

(* The first row's band taken from every row. *)
SubRows_firstRow(a, band) ==
    Array2(a.h, a.w, a.dtype, LAMBDA r, c : RSub(a.px[r][c], band[1]))

(* img - band[:, np.newaxis]: band[r] taken from every element of row r. *)
SubRows(a, band) == Array2(a.h, a.w, a.dtype, LAMBDA r, c : RSub(a.px[r][c], band[r]))

(* np.clip without its bounds: the value as it is. *)
Clip_none(v) == v

(* np.clip(v, 0, 65535) of one element; NaN stays NaN. *)
Clip(v) ==
    IF IsNaN(v) THEN v
    ELSE IF RLess(v, Zero) THEN Zero
    ELSE IF RLess(FromInt(SampleMax), v) THEN FromInt(SampleMax)
    ELSE v

(* The conversion rounding to the nearest integer, halves upwards. *)
Trunc_nearest(v) == (2 * v.n + v.d) \div (2 * v.d)

Trunc(v) == IF v.n >= 0 THEN v.n \div v.d ELSE -((-v.n) \div v.d)

(* What the conversion of a NaN or an infinity to uint16 gives is not      *)
(* defined; builds give 0 or the largest sample.                           *)
NaNCastOutcomes == {0, SampleMax}

(* .astype(np.uint16) of one element: the fraction is dropped, a value     *)
(* outside the type wraps modulo 2^16, a NaN gives nanAs.                  *)
AsTypeU16(v, nanAs) ==
    IF ~IsFinite(v) THEN nanAs ELSE Trunc(v) % (SampleMax + 1)

(* np.clip(corrected, 0, 65535).astype(np.uint16) *)
ClipAsTypeU16(a, nanAs) ==
    Array2(a.h, a.w, "uint16", LAMBDA r, c : AsTypeU16(Clip(a.px[r][c]), nanAs))

----------------------------------------------------------------------------
(* optimize_smooth_window *)

FallbackCandidates == <<10, 32, 64, 128, 256>>

Min(a, b) == IF a < b THEN a ELSE b

(* The range stopping short of max_win: list(range(10, max_win, 5)). *)
DefaultCandidates_exclusive(h) ==
    LET max_win == Min(512, h \div 4)
        n == IF max_win > 10 THEN (max_win - 11) \div 5 + 1 ELSE 0
    IN  IF n = 0 THEN FallbackCandidates ELSE [i \in 1..n |-> 10 + 5 * (i - 1)]

(* list(range(10, max_win + 1, 5)) with max_win = min(512, h // 4), and    *)
(* the fixed list when that range is empty.                                *)
DefaultCandidates(h) ==
    LET max_win == Min(512, h \div 4)
        n == IF max_win >= 10 THEN (max_win - 10) \div 5 + 1 ELSE 0
    IN  IF n = 0 THEN FallbackCandidates ELSE [i \in 1..n |-> 10 + 5 * (i - 1)]

NoCandidates == [given |-> FALSE, list |-> <<>>]

OptimizeRaised ==
    [ok |-> FALSE, best_window |-> 0, best_score |-> NaN, tested |-> <<>>, scores |-> <<>>]

(* The loop over candidates from position i on, best = [window, score]     *)
(* so far; it ends early when moving_average_1d raises.  A completed call  *)
(* carries the list it printed as tested (line 66) and the scores it       *)
(* printed for them (line 79).                                             *)
RECURSIVE OptimizeLoop(_, _, _, _, _)
OptimizeLoop(cands, i, stripe, ref, best) ==
    IF i > Len(cands)
    THEN [ok |-> TRUE, best_window |-> best.window, best_score |-> best.score,
          tested |-> cands, scores |-> best.scores]
    ELSE Bind(moving_average_1d(ref, cands[i]), LAMBDA ref_slow :
         IF ~ref_slow.ok THEN OptimizeRaised
         ELSE Bind(VSub(ref, ref_slow.v), LAMBDA band :
              Bind(SubRows(stripe, band), LAMBDA corrected_stripe :
              Bind(MedianRows(corrected_stripe), LAMBDA corrected_ref :
              Bind(Std(corrected_ref), LAMBDA score :
                  OptimizeLoop(cands, i + 1, stripe, ref,
                      IF StdLess(score, best.score)
                      THEN [window |-> cands[i], score |-> score,
                            scores |-> Append(best.scores, score)]
                      ELSE [best EXCEPT !.scores = Append(@, score)]))))))

(* An empty list is taken as no list: the defaults stand in for it. *)
optimize_smooth_window_emptyAsNone(img_u16, black_w, black_offset, candidates) ==
    Bind(IF candidates.given /\ Len(candidates.list) > 0 THEN candidates.list
         ELSE DefaultCandidates(img_u16.h), LAMBDA cands :
    Bind(AsTypeF32Img(img_u16), LAMBDA img :
    Bind(ColSlice(img, ColStart(img.w, black_offset, black_w), ColEnd(img.w, black_offset)),
         LAMBDA stripe :
    Bind(MedianRows(stripe), LAMBDA ref :
        OptimizeLoop(cands, 1, stripe, ref,
                     [window |-> cands[1], score |-> Inf, scores |-> <<>>])))))

optimize_smooth_window(img_u16, black_w, black_offset, candidates) ==
    Bind(IF candidates.given THEN candidates.list ELSE DefaultCandidates(img_u16.h),
         LAMBDA cands :
    Bind(AsTypeF32Img(img_u16), LAMBDA img :
    Bind(ColSlice(img, ColStart(img.w, black_offset, black_w), ColEnd(img.w, black_offset)),
         LAMBDA stripe :
    Bind(MedianRows(stripe), LAMBDA ref :
        IF Len(cands) = 0 THEN OptimizeRaised
        ELSE OptimizeLoop(cands, 1, stripe, ref,
                          [window |-> cands[1], score |-> Inf, scores |-> <<>>])))))

----------------------------------------------------------------------------
(* detect_banding *)

DetectRaised == [ok |-> FALSE, has_banding |-> FALSE, band_std |-> NaN, band |-> <<>>]

(* The detector's stripe taken from the right edge whatever the offset. *)
DetectStripe_noOffset(img, black_w, black_offset) ==
    ColSlice(img, img.w - black_w, img.w)

(* Line 108: stripe = img[:, w - black_offset - black_w : w - black_offset] *)
DetectStripe(img, black_w, black_offset) ==
    ColSlice(img, ColStart(img.w, black_offset, black_w), ColEnd(img.w, black_offset))

(* The result carries, with the returned pair, the band the deviation was  *)
(* taken of.                                                               *)
detect_banding(img_u16, black_w, black_offset, smooth_win, threshold) ==
    Bind(AsTypeF32Img(img_u16), LAMBDA img :
    Bind(DetectStripe(img, black_w, black_offset), LAMBDA stripe :
    Bind(MedianRows(stripe), LAMBDA ref :
    Bind(moving_average_1d(ref, smooth_win), LAMBDA ref_slow :
        IF ~ref_slow.ok THEN DetectRaised
        ELSE Bind(VSub(ref, ref_slow.v), LAMBDA band :
             Bind(Std(band), LAMBDA band_std :
                 [ok |-> TRUE,
                  has_banding |-> StdGreater(band_std, threshold),
                  band_std |-> band_std, band |-> band]))))))

----------------------------------------------------------------------------
(* correct_banding.  The arrays a caller can hold live in the heap; the    *)
(* float arrays a call makes on its way are its own and end with it.  The  *)
(* result carries, with the returned pair, the warning and the window the  *)
(* call prints, and the stages it ran in the order it ran them.            *)

InputAddr == 1

Fresh(h) == CHOOSE a \in 1..(Cardinality(DOMAIN h) + 1) : a \notin DOMAIN h

(* A new array holding arr. *)
NewArray(h, arr) == [heap |-> h @@ (Fresh(h) :> arr), addr |-> Fresh(h)]

(* No copy: the array itself is handed back. *)
CopyArray_alias(h, a) == [heap |-> h, addr |-> a]

(* img_u16.copy() *)
CopyArray(h, a) == NewArray(h, h[a])

CorrectRaised(h) ==
    [ok |-> FALSE, heap |-> h, addr |-> 0, applied |-> FALSE, warned |-> FALSE,
     window |-> 0, band |-> <<>>, corrected_ref |-> <<>>, stages |-> <<>>]

(* The result r of the rest of a call, with the stage run before it and    *)
(* the window that stage returned or was given put first.                  *)
After(stage, window, r) ==
    IF r.ok THEN [r EXCEPT !.stages = <<[stage |-> stage, window |-> window]>> \o @] ELSE r

(* np.max and np.min of an empty array raise (line 174). *)
ReduceRaises(s) == Len(s) = 0

(* Lines 153-187: the correction itself, with the window settled. *)
CorrectApply(h, a, black_w, black_offset, smooth_win, nanAs) ==
    Bind(AsTypeF32Img(h[a]), LAMBDA img :
    Bind(ColSlice(img, ColStart(img.w, black_offset, black_w), ColEnd(img.w, black_offset)),
         LAMBDA stripe :
    Bind(MedianRows(stripe), LAMBDA ref :
    Bind(moving_average_1d(ref, smooth_win), LAMBDA ref_slow :
        IF ~ref_slow.ok THEN CorrectRaised(h)
        ELSE Bind(VSub(ref, ref_slow.v), LAMBDA band :
             Bind(SubRows(img, band), LAMBDA corrected :
             Bind(ColSlice(corrected, ColStart(img.w, black_offset, black_w),
                           ColEnd(img.w, black_offset)), LAMBDA corrected_stripe :
             Bind(MedianRows(corrected_stripe), LAMBDA corrected_ref :
                 IF ReduceRaises(corrected_ref) THEN CorrectRaised(h)
                 ELSE Bind(NewArray(h, ClipAsTypeU16(corrected, nanAs)), LAMBDA out :
                     [ok |-> TRUE, heap |-> out.heap, addr |-> out.addr, applied |-> TRUE,
                      warned |-> StdGreaterThanThreeTenths(Std(corrected_ref), Std(ref)),
                      window |-> smooth_win, band |-> band,
                      corrected_ref |-> corrected_ref,
                      stages |-> <<[stage |-> "correct", window |-> smooth_win]>>]
             )))))))))

(* No short circuit: the correction is applied whatever the detector says. *)
CorrectDetect_always(h, a, black_w, black_offset, smooth_win, auto_detect, threshold, nanAs) ==
    CorrectApply(h, a, black_w, black_offset, smooth_win, nanAs)

(* Lines 144-151 and on: the detection, with the window settled. *)
CorrectDetect(h, a, black_w, black_offset, smooth_win, auto_detect, threshold, nanAs) ==
    IF ~auto_detect THEN CorrectApply(h, a, black_w, black_offset, smooth_win, nanAs)
    ELSE Bind(detect_banding(h[a], black_w, black_offset, smooth_win, threshold), LAMBDA det :
         IF ~det.ok THEN CorrectRaised(h)
         ELSE IF ~det.has_banding
         THEN Bind(CopyArray(h, a), LAMBDA out :
                  [ok |-> TRUE, heap |-> out.heap, addr |-> out.addr,
                   applied |-> FALSE, warned |-> FALSE, window |-> smooth_win,
                   band |-> <<>>, corrected_ref |-> <<>>,
                   stages |-> <<[stage |-> "detect", window |-> smooth_win]>>])
         ELSE After("detect", smooth_win,
                    CorrectApply(h, a, black_w, black_offset, smooth_win, nanAs)))

(* The optimizer's window is printed, and the caller's is used. *)
correct_banding_callerWindow(h, a, black_w, black_offset, smooth_win, auto_detect, threshold, auto_optimize, nanAs) ==
    IF ~auto_optimize
    THEN CorrectDetect(h, a, black_w, black_offset, smooth_win, auto_detect, threshold, nanAs)
    ELSE Bind(optimize_smooth_window(h[a], black_w, black_offset, NoCandidates), LAMBDA opt :
         IF ~opt.ok THEN CorrectRaised(h)
         ELSE After("optimize", opt.best_window,
                    CorrectDetect(h, a, black_w, black_offset, smooth_win, auto_detect,
                                  threshold, nanAs)))

correct_banding(h, a, black_w, black_offset, smooth_win, auto_detect, threshold, auto_optimize, nanAs) ==
    IF ~auto_optimize
    THEN CorrectDetect(h, a, black_w, black_offset, smooth_win, auto_detect, threshold, nanAs)
    ELSE Bind(optimize_smooth_window(h[a], black_w, black_offset, NoCandidates), LAMBDA opt :
         IF ~opt.ok THEN CorrectRaised(h)
         ELSE After("optimize", opt.best_window,
                    CorrectDetect(h, a, black_w, black_offset, opt.best_window, auto_detect,
                                  threshold, nanAs)))

----------------------------------------------------------------------------
(* The parts of the state a specification does not use stay as they are. *)
Elsewhere ==
    /\ calls = <<>>
    /\ save = <<>>
    /\ viewport = <<>>
    /\ server = <<>>

Idle ==
    /\ height = 0
    /\ gui = <<>>
    /\ trace = <<>>
    /\ Elsewhere

----------------------------------------------------------------------------
(* The smoother applied directly to a profile. *)

ProfileValues == {FromInt(0), FromInt(1), Rat(7, 2), FromInt(SampleMax)}

Profiles == UNION {[1..n -> ProfileValues] : n \in 0..MaxN}

Windows == (-1)..MaxWin

NoRet == [op |-> "none"]

InitSmooth ==
    /\ heap = <<>>
    /\ original = <<>>
    /\ ret = NoRet
    /\ profile \in Profiles
    /\ win \in Windows \cup {MaxN + 2}
    /\ Idle

CallSmooth ==
    /\ ret.op = "none"
    /\ LET r == moving_average_1d(profile, win)
       IN  ret' = [op |-> "smooth", raised |-> ~r.ok, out |-> r.v]
    /\ UNCHANGED <<heap, original, profile, win, apart>>

NextSmooth == CallSmooth

SpecSmooth == InitSmooth /\ [][NextSmooth]_vars

----------------------------------------------------------------------------
(* Lines 47-55 of optimize_smooth_window on their own: the candidates for  *)
(* an image of a given height when the caller supplies none.               *)

InitCandidates ==
    /\ heap = <<>>
    /\ original = <<>>
    /\ ret = NoRet
    /\ profile = <<>>
    /\ win = 0
    /\ height \in 0..MaxHeight
    /\ gui = <<>>
    /\ trace = <<>>
    /\ Elsewhere

MakeCandidates ==
    /\ ret.op = "none"
    /\ ret' = [op |-> "candidates", list |-> DefaultCandidates(height)]
    /\ UNCHANGED <<heap, original, profile, win, apart>>

NextCandidates == MakeCandidates

SpecCandidates == InitCandidates /\ [][NextCandidates]_vars

----------------------------------------------------------------------------
(* process_frame of the production module (machine_modules/banding).  The  *)
(* application state it reads and writes through gui.api is the record     *)
(* gui.  The functions it imports from banding_correction are outside the  *)
(* source: a frame is carried as the list of corrections made to it, and   *)
(* an optimizer returns some window.                                       *)

None == 0

OptimizerResults == {10, 15}

Settings ==
    {"banding_enabled", "banding_auto_optimize", "vertical_banding_enabled",
     "vertical_banding_auto_optimize", "vertical_banding_first"}

(* The frame a correction returns. *)
Corrected(frame, axis, smooth_win) == Append(frame, [axis |-> axis, win |-> smooth_win])

(* The horizontal block, the optimizer run whatever the stored window. *)
HorizontalStep_noCache(st, opt) ==
    IF ~st.gui.banding_enabled THEN st
    ELSE LET auto == st.gui.banding_auto_optimize
             g1 == IF auto THEN [st.gui EXCEPT !.banding_optimized_win = opt] ELSE st.gui
             t1 == IF auto
                   THEN Append(st.trace, [op |-> "optimize", axis |-> "horizontal",
                                          input |-> st.frame, win |-> opt])
                   ELSE st.trace
             smooth_win == IF auto THEN opt ELSE st.gui.banding_smooth_win
         IN  [frame |-> Corrected(st.frame, "horizontal", smooth_win),
              gui |-> g1,
              trace |-> Append(t1, [op |-> "correct", axis |-> "horizontal",
                                    input |-> st.frame, win |-> smooth_win])]

(* A stored window is used whether or not the auto-optimize flag is on. *)
HorizontalStep_storedWins(st, opt) ==
    IF ~st.gui.banding_enabled THEN st
    ELSE LET needs == /\ st.gui.banding_auto_optimize
                      /\ st.gui.banding_optimized_win = None
             g1 == IF needs THEN [st.gui EXCEPT !.banding_optimized_win = opt] ELSE st.gui
             t1 == IF needs
                   THEN Append(st.trace, [op |-> "optimize", axis |-> "horizontal",
                                          input |-> st.frame, win |-> opt])
                   ELSE st.trace
             smooth_win == IF g1.banding_optimized_win # None
                           THEN g1.banding_optimized_win
                           ELSE st.gui.banding_smooth_win
         IN  [frame |-> Corrected(st.frame, "horizontal", smooth_win),
              gui |-> g1,
              trace |-> Append(t1, [op |-> "correct", axis |-> "horizontal",
                                    input |-> st.frame, win |-> smooth_win])]

(* Lines 106-121 and 123-138: the horizontal block; opt is what the        *)
(* optimizer returns if it is called.                                      *)
HorizontalStep(st, opt) ==
    IF ~st.gui.banding_enabled THEN st
    ELSE LET needs == /\ st.gui.banding_auto_optimize
                      /\ st.gui.banding_optimized_win = None
             g1 == IF needs THEN [st.gui EXCEPT !.banding_optimized_win = opt] ELSE st.gui
             t1 == IF needs
                   THEN Append(st.trace, [op |-> "optimize", axis |-> "horizontal",
                                          input |-> st.frame, win |-> opt])
                   ELSE st.trace
             smooth_win == IF st.gui.banding_auto_optimize
                           THEN g1.banding_optimized_win
                           ELSE st.gui.banding_smooth_win
         IN  [frame |-> Corrected(st.frame, "horizontal", smooth_win),
              gui |-> g1,
              trace |-> Append(t1, [op |-> "correct", axis |-> "horizontal",
                                    input |-> st.frame, win |-> smooth_win])]

(* Lines 91-105 and 139-153: the vertical block. *)
VerticalStep(st, opt) ==
    IF ~st.gui.vertical_banding_enabled THEN st
    ELSE LET needs == /\ st.gui.vertical_banding_auto_optimize
                      /\ st.gui.vertical_banding_optimized_win = None
             g1 == IF needs
                   THEN [st.gui EXCEPT !.vertical_banding_optimized_win = opt]
                   ELSE st.gui
             t1 == IF needs
                   THEN Append(st.trace, [op |-> "optimize", axis |-> "vertical",
                                          input |-> st.frame, win |-> opt])
                   ELSE st.trace
             v_smooth_win == IF st.gui.vertical_banding_auto_optimize
                             THEN g1.vertical_banding_optimized_win
                             ELSE st.gui.vertical_smooth_win
         IN  [frame |-> Corrected(st.frame, "vertical", v_smooth_win),
              gui |-> g1,
              trace |-> Append(t1, [op |-> "correct", axis |-> "vertical",
                                    input |-> st.frame, win |-> v_smooth_win])]

(* Horizontal first whatever vertical_banding_first says. *)
process_frame_horizontalFirst(frame, g, hopt, vopt) ==
    VerticalStep(HorizontalStep([frame |-> frame, gui |-> g, trace |-> <<>>], hopt), vopt)

(* Lines 80-154. *)
process_frame(frame, g, hopt, vopt) ==
    LET st == [frame |-> frame, gui |-> g, trace |-> <<>>]
    IN  IF g.vertical_banding_first
        THEN HorizontalStep(VerticalStep(st, vopt), hopt)
        ELSE VerticalStep(HorizontalStep(st, hopt), vopt)

InitFrame ==
    /\ heap = <<>>
    /\ original = <<>>
    /\ ret = NoRet
    /\ profile = <<>>
    /\ win = 0
    /\ height = 0
    /\ \E flags \in [Settings -> BOOLEAN] :
           gui = flags @@ [banding_smooth_win |-> 3, vertical_smooth_win |-> 4,
                           banding_optimized_win |-> None,
                           vertical_banding_optimized_win |-> None]
    /\ trace = <<>>
    /\ Elsewhere

(* One frame through process_frame; ret keeps the settings the call read.  *)
ProcessFrame ==
    /\ \E hopt \in OptimizerResults, vopt \in OptimizerResults :
           LET st == process_frame(<<>>, gui, hopt, vopt)
           IN  /\ gui' = st.gui
               /\ trace' = st.trace
               /\ ret' = [op |-> "frame", frame |-> st.frame, gui |-> gui]
    /\ UNCHANGED <<heap, original, profile, win, height, others>>

(* The user switches a setting between two frames. *)
SetSetting ==
    /\ \E key \in Settings : gui' = [gui EXCEPT ![key] = ~@]
    /\ UNCHANGED <<heap, original, ret, profile, win, height, trace, others>>

(* The application resets a stored window to None between two frames. *)
Invalidate ==
    /\ \E key \in {"banding_optimized_win", "vertical_banding_optimized_win"} :
           /\ gui[key] # None
           /\ gui' = [gui EXCEPT ![key] = None]
    /\ UNCHANGED <<heap, original, ret, profile, win, height, trace, others>>

NextFrame == ProcessFrame \/ SetSetting \/ Invalidate

SpecFrame == InitFrame /\ [][NextFrame]_vars

----------------------------------------------------------------------------
(* A caller holding one image, calling the three functions in any order.   *)

RowA == <<65535, 0, 100>>
RowB == <<65532, 1, 103>>

Rows == {RowA, RowB}

ImgW == Len(RowA)

(* The sample types of the images handed in: 16-bit samples, in 16-bit    *)
(* storage or in wider storage.                                            *)
InputTypes == {"uint16", "uint32"}

Images ==
    UNION {{[h |-> n, w |-> ImgW, dtype |-> t, px |-> p] :
                p \in [1..n -> Rows], t \in InputTypes} : n \in 0..MaxH}

BlackWs == (-1)..(ImgW + 1)

SmoothWins == 2..MaxWin

BlackOffsets == 0..(ImgW + 1)

Thresholds == {FromInt(0), FromInt(1), FromInt(DefaultThreshold)}

CandidateLists ==
    {NoCandidates} \cup
    {[given |-> TRUE, list |-> l] : l \in {<<>>, <<3>>, <<3, MaxWin>>, <<MaxWin, 3>>}}

Init ==
    /\ original \in Images
    /\ heap = (InputAddr :> original)
    /\ ret = NoRet
    /\ profile = <<>>
    /\ win = 0
    /\ Idle

StripeEmpty(w, black_offset, black_w) ==
    SliceIndex(ColEnd(w, black_offset), w) <= SliceIndex(ColStart(w, black_offset, black_w), w)

CallCorrect ==
    /\ ret.op = "none"
    /\ \E black_w \in BlackWs, black_offset \in BlackOffsets, smooth_win \in SmoothWins,
          auto_detect \in BOOLEAN, threshold \in Thresholds, auto_optimize \in BOOLEAN,
          nanAs \in NaNCastOutcomes :
          \* arguments the call does not read are left at their defaults
          /\ auto_optimize => smooth_win = MaxWin /\ black_offset = 0
          /\ ~auto_detect => threshold = FromInt(DefaultThreshold)
          /\ ~StripeEmpty(heap[InputAddr].w, black_offset, black_w) => nanAs = 0
          /\ \E r \in {correct_banding(heap, InputAddr, black_w, black_offset, smooth_win,
                                        auto_detect, threshold, auto_optimize, nanAs)} :
                 /\ heap' = r.heap
                 /\ ret' = [op |-> "correct", black_w |-> black_w,
                            black_offset |-> black_offset, smooth_win |-> smooth_win,
                            auto_detect |-> auto_detect, threshold |-> threshold,
                            auto_optimize |-> auto_optimize,
                            raised |-> ~r.ok, img |-> r.addr, applied |-> r.applied,
                            warned |-> r.warned, window |-> r.window, band |-> r.band,
                            corrected_ref |-> r.corrected_ref, stages |-> r.stages]
    /\ UNCHANGED <<original, profile, win, apart>>

CallDetect ==
    /\ ret.op = "none"
    /\ \E black_w \in BlackWs, black_offset \in BlackOffsets, smooth_win \in SmoothWins,
          threshold \in Thresholds :
          \E r \in {detect_banding(heap[InputAddr], black_w, black_offset, smooth_win,
                                    threshold)} :
              ret' = [op |-> "detect", black_w |-> black_w, black_offset |-> black_offset,
                      smooth_win |-> smooth_win, threshold |-> threshold,
                      raised |-> ~r.ok, has_banding |-> r.has_banding,
                      band_std |-> r.band_std, band |-> r.band]
    /\ UNCHANGED <<heap, original, profile, win, apart>>

CallOptimize ==
    /\ ret.op = "none"
    /\ \E black_w \in BlackWs, black_offset \in BlackOffsets, candidates \in CandidateLists :
          \E r \in {optimize_smooth_window(heap[InputAddr], black_w, black_offset,
                                            candidates)} :
              ret' = [op |-> "optimize", black_w |-> black_w, black_offset |-> black_offset,
                      candidates |-> candidates, raised |-> ~r.ok,
                      best_window |-> r.best_window, best_score |-> r.best_score,
                      tested |-> r.tested, scores |-> r.scores]
    /\ UNCHANGED <<heap, original, profile, win, apart>>

(* The caller drops what the call returned; the returned array is freed.   *)
Release ==
    /\ ret.op # "none"
    /\ ret' = NoRet
    /\ heap' = [a \in {InputAddr} |-> heap[a]]
    /\ UNCHANGED <<original, profile, win, apart>>

Next == CallCorrect \/ CallDetect \/ CallOptimize \/ Release

Spec == Init /\ [][Next]_vars

----------------------------------------------------------------------------
(* Two calls of the core functions running side by side, each on its own   *)
(* input array, their statements interleaved in any order.  The arrays of  *)
(* both calls live in the one heap; what a call keeps in local names is    *)
(* its own.                                                                *)

Threads == {1, 2}

(* Every call allocates where the other one does. *)
WorkingCopy_shared(h, a) ==
    [heap |-> [x \in DOMAIN h \cup {Cardinality(Threads) + 1} |->
                  IF x = Cardinality(Threads) + 1 THEN AsTypeF32Img(h[a]) ELSE h[x]],
     addr |-> Cardinality(Threads) + 1]

(* img = img_u16.astype(np.float32): a new array of the call's own. *)
WorkingCopy(h, a) == NewArray(h, AsTypeF32Img(h[a]))

ConcurrentImages ==
    {[h |-> 2, w |-> ImgW, dtype |-> "uint16", px |-> <<RowA, r>>] : r \in Rows}

CallsToMake ==
    [kind : {"correct", "detect", "optimize"}, black_w : {1, 2}, black_offset : {0},
     smooth_win : {3}, candidates : {<<3, MaxWin>>}]

InitConcurrent ==
    /\ \E imgs \in [Threads -> ConcurrentImages] :
           /\ heap = imgs
           /\ original = imgs
    /\ \E args \in [Threads -> CallsToMake] :
           calls = [t \in Threads |-> args[t] @@ [input |-> t, pc |-> "astype"]]
    /\ ret = NoRet
    /\ profile = <<>>
    /\ win = 0
    /\ height = 0
    /\ gui = <<>>
    /\ trace = <<>>
    /\ save = <<>>
    /\ viewport = <<>>
    /\ server = <<>>

(* The call of thread t goes on as c; nothing but the heap is shared. *)
Goes(t, c) ==
    /\ calls' = [calls EXCEPT ![t] = c]
    /\ UNCHANGED <<original, ret, profile, win, height, gui, trace, save, viewport, server>>

(* The call returns: its local names end with it. *)
Returns(c, result) ==
    [kind |-> c.kind, input |-> c.input, black_w |-> c.black_w,
     black_offset |-> c.black_offset, smooth_win |-> c.smooth_win,
     candidates |-> c.candidates, pc |-> "done", result |-> result]

(* Lines 57, 104, 153. *)
AsType(t) ==
    /\ calls[t].pc = "astype"
    /\ \E w \in {WorkingCopy(heap, calls[t].input)} :
           /\ heap' = w.heap
           /\ Goes(t, [calls[t] EXCEPT !.pc = "median"] @@ [img |-> w.addr])

(* Lines 60-61, 108-109, 160-161: the stripe is a view of img. *)
TakeMedian(t) ==
    /\ calls[t].pc = "median"
    /\ \E c \in {calls[t]} :
       \E stripe \in {ColSlice(heap[c.img], ColStart(heap[c.img].w, c.black_offset, c.black_w),
                                ColEnd(heap[c.img].w, c.black_offset))} :
           Goes(t, [c EXCEPT !.pc = IF c.kind = "optimize" THEN "candidate" ELSE "band"]
                   @@ [ref |-> MedianRows(stripe), i |-> 1,
                       best |-> [window |-> c.candidates[1], score |-> Inf]])
    /\ UNCHANGED heap

(* Lines 112-116 of detect_banding, 164-165 of correct_banding. *)
TakeBand(t) ==
    /\ calls[t].pc = "band"
    /\ \E c \in {calls[t]} :
       \E ref_slow \in {moving_average_1d(c.ref, c.smooth_win)} :
           IF ~ref_slow.ok
           THEN Goes(t, Returns(c, [raised |-> TRUE]))
           ELSE \E band \in {VSub(c.ref, ref_slow.v)} :
                IF c.kind = "detect"
                THEN Goes(t, Returns(c, [raised |-> FALSE,
                                         has_banding |-> StdGreater(Std(band),
                                                            FromInt(DefaultThreshold)),
                                         band_std |-> Std(band)]))
                ELSE Goes(t, [c EXCEPT !.pc = "subtract"] @@ [band |-> band])
    /\ UNCHANGED heap

(* Line 168: corrected = img - band[:, np.newaxis], a new array. *)
Subtract(t) ==
    /\ calls[t].pc = "subtract"
    /\ \E c \in {calls[t]} :
       \E n \in {NewArray(heap, SubRows(heap[c.img], c.band))} :
           /\ heap' = n.heap
           /\ Goes(t, [c EXCEPT !.pc = "remeasure"] @@ [corrected |-> n.addr])

(* Lines 171-183: the stripe of the corrected image measured again. *)
Remeasure(t) ==
    /\ calls[t].pc = "remeasure"
    /\ \E c \in {calls[t]} :
       \E corrected_ref \in
              {MedianRows(ColSlice(heap[c.corrected],
                                   ColStart(heap[c.corrected].w, c.black_offset, c.black_w),
                                   ColEnd(heap[c.corrected].w, c.black_offset)))} :
           IF ReduceRaises(corrected_ref)
           THEN Goes(t, Returns(c, [raised |-> TRUE]))
           ELSE Goes(t, [c EXCEPT !.pc = "cast"]
                        @@ [warned |-> StdGreaterThanThreeTenths(Std(corrected_ref),
                                                                 Std(c.ref))])
    /\ UNCHANGED heap

(* Lines 186-187. *)
CastAndReturn(t) ==
    /\ calls[t].pc = "cast"
    /\ \E c \in {calls[t]} :
       \E n \in {NewArray(heap, ClipAsTypeU16(heap[c.corrected], 0))} :
           /\ heap' = n.heap
           /\ Goes(t, Returns(c, [raised |-> FALSE, img |-> n.addr, applied |-> TRUE,
                                   warned |-> c.warned]))

(* Lines 68-87: one candidate of the optimizer's loop, or its end. *)
TryCandidate(t) ==
    /\ calls[t].pc = "candidate"
    /\ \E c \in {calls[t]} :
       IF c.i > Len(c.candidates)
       THEN Goes(t, Returns(c, [raised |-> FALSE, best_window |-> c.best.window,
                                best_score |-> c.best.score]))
       ELSE \E ref_slow \in {moving_average_1d(c.ref, c.candidates[c.i])} :
            IF ~ref_slow.ok
            THEN Goes(t, Returns(c, [raised |-> TRUE]))
            ELSE \E stripe \in {ColSlice(heap[c.img],
                                         ColStart(heap[c.img].w, c.black_offset, c.black_w),
                                         ColEnd(heap[c.img].w, c.black_offset))} :
                 \E score \in {Std(MedianRows(SubRows(stripe, VSub(c.ref, ref_slow.v))))} :
                     Goes(t, [c EXCEPT !.i = @ + 1,
                                       !.best = IF StdLess(score, @.score)
                                                THEN [window |-> c.candidates[c.i],
                                                      score |-> score]
                                                ELSE @])
    /\ UNCHANGED heap

NextConcurrent ==
    \E t \in Threads :
        \/ AsType(t)
        \/ TakeMedian(t)
        \/ TakeBand(t)
        \/ Subtract(t)
        \/ Remeasure(t)
        \/ CastAndReturn(t)
        \/ TryCandidate(t)

SpecConcurrent == InitConcurrent /\ [][NextConcurrent]_vars

----------------------------------------------------------------------------
(* The debounced settings save (ui/settings.py).  save holds the fields of *)
(* the GUI object the two functions read and write, and now, the value of  *)
(* time.monotonic().  ret is the last call with the state it found and the *)
(* saves it performed; trace keeps the scopes requested since the last     *)
(* flush that saved, and when the latest request falls due.                *)

Scopes == {"window", "full", "other"}

(* debounce_s as passed: None (the empty tuple here), a negative number,   *)
(* zero, a positive one.                                                   *)
Debounces == {<<>>, <<-1>>, <<0>>, <<2>>}

(* The scope of the latest request stands, whatever was pending. *)
request_save_lastWins(g, scope, debounce_s) ==
    IF ~g.extra_settings_keys THEN g
    ELSE LET sc == IF scope \notin {"window", "full"} THEN "full" ELSE scope
             d  == IF debounce_s = <<>> THEN g.settings_save_debounce_s ELSE debounce_s[1]
         IN  [g EXCEPT !.settings_save_pending = TRUE,
                       !.settings_save_scope = sc,
                       !.settings_save_deadline = g.now + (IF d > 0 THEN d ELSE 0)]

(* request_save, lines 12-23. *)
request_save(g, scope, debounce_s) ==
    IF ~g.extra_settings_keys THEN g
    ELSE LET sc == IF scope \notin {"window", "full"} THEN "full" ELSE scope
             d  == IF debounce_s = <<>> THEN g.settings_save_debounce_s ELSE debounce_s[1]
         IN  [g EXCEPT !.settings_save_pending = TRUE,
                       !.settings_save_scope =
                           IF sc = "full" \/ @ # "full" THEN sc ELSE @,
                       !.settings_save_deadline = g.now + (IF d > 0 THEN d ELSE 0)]

(* A flush before the deadline saves all the same. *)
flush_pending_save_early(g, force) ==
    IF ~g.settings_save_pending THEN [gui |-> g, saves |-> <<>>]
    ELSE [gui |-> [g EXCEPT !.settings_save_pending = FALSE,
                            !.settings_save_scope = "window"],
          saves |-> <<g.settings_save_scope>>]

(* flush_pending_save, lines 26-38: the state it leaves and the saves it   *)
(* ran, save_windowing_now as "window" and save_settings_now as "full".    *)
flush_pending_save(g, force) ==
    IF ~g.settings_save_pending THEN [gui |-> g, saves |-> <<>>]
    ELSE IF ~force /\ g.now < g.settings_save_deadline THEN [gui |-> g, saves |-> <<>>]
    ELSE [gui |-> [g EXCEPT !.settings_save_pending = FALSE,
                            !.settings_save_scope = "window"],
          saves |-> <<g.settings_save_scope>>]

(* The state a flush that saved leaves (lines 33-34), at time 0, with the  *)
(* settings keys there or not.                                             *)
InitSave ==
    /\ \E keys \in BOOLEAN, d \in {0, 1} :
           save = [extra_settings_keys |-> keys, settings_save_pending |-> FALSE,
                   settings_save_scope |-> "window", settings_save_deadline |-> 0,
                   settings_save_debounce_s |-> d, now |-> 0]
    /\ trace = [asked |-> {}, due |-> 0]
    /\ ret = NoRet
    /\ heap = <<>>
    /\ original = <<>>
    /\ profile = <<>>
    /\ win = 0
    /\ height = 0
    /\ gui = <<>>
    /\ calls = <<>>
    /\ viewport = <<>>
    /\ server = <<>>

RequestSave ==
    /\ \E scope \in Scopes, debounce_s \in Debounces :
           /\ save' = request_save(save, scope, debounce_s)
           /\ ret' = [op |-> "request", scope |-> scope, debounce_s |-> debounce_s,
                      before |-> save]
           /\ trace' = [asked |-> trace.asked \cup {scope},
                        due |-> save.now +
                                (IF debounce_s = <<>> THEN save.settings_save_debounce_s
                                 ELSE IF debounce_s[1] > 0 THEN debounce_s[1] ELSE 0)]
    /\ UNCHANGED <<heap, original, profile, win, height, gui, calls, viewport, server>>

FlushPendingSave ==
    /\ \E force \in BOOLEAN :
       \E r \in {flush_pending_save(save, force)} :
           /\ save' = r.gui
           /\ ret' = [op |-> "flush", force |-> force, before |-> save,
                      after |-> r.gui, asked |-> trace.asked, due |-> trace.due,
                      saves |-> r.saves]
           /\ trace' = IF r.saves # <<>> THEN [asked |-> {}, due |-> 0] ELSE trace
    /\ UNCHANGED <<heap, original, profile, win, height, gui, calls, viewport, server>>

(* time.monotonic() moves on. *)
Tick ==
    /\ save.now < MaxTime
    /\ save' = [save EXCEPT !.now = @ + 1]
    /\ UNCHANGED <<heap, original, ret, profile, win, height, gui, trace, calls,
                   viewport, server>>

NextSave == RequestSave \/ FlushPendingSave \/ Tick

SpecSave == InitSave /\ [][NextSave]_vars

----------------------------------------------------------------------------
(* The image viewport (lib/image_viewport.py).  viewport holds the fields  *)
(* of an ImageViewport, trace whether handle_click started a drag that     *)
(* handle_release has not ended.  Zoom, pan and the UV sizes are carried   *)
(* in fixed point, One standing for 1.0: the zoom is rounded to the        *)
(* nearest multiple of 1/One, where float64 rounds to the nearest of 53    *)
(* bits, the other products and quotients are rounded down.  What DearPyGui    *)
(* reports (the image rectangle, the mouse, the button) is an input of     *)
(* each call.                                                              *)

One == 10

ZoomMax == 12 * One

(* zoom * 1.15 and zoom * (1.0 / 1.15), line 95-96. *)
ZoomIn(z) == (z * 115 + 50) \div 100
ZoomOut(z) == (z * 200 + 115) \div 230

(* _clamp, line 41-42. *)
clamp(v, lo, hi) == IF (IF hi < v THEN hi ELSE v) < lo THEN lo ELSE (IF hi < v THEN hi ELSE v)

(* 1.0 / zoom. *)
UvOf(z) == (One * One) \div z

(* max(0.0, 1.0 - uv_w). *)
MaxPan(z) == IF One - UvOf(z) > 0 THEN One - UvOf(z) ELSE 0

(* What get_item_rect_min/max report: nothing, an empty rectangle, or the  *)
(* image at (0, 0) with RectSize pixels a side.                           *)
RectSize == 4
Rects == {<<>>, <<0, 0, 0, 0>>, <<0, 0, RectSize, RectSize>>}

(* _get_image_rect, lines 44-56: None (the empty tuple here) or the rect. *)
get_image_rect(rect) ==
    IF rect = <<>> THEN <<>>
    ELSE IF rect[3] <= rect[1] \/ rect[4] <= rect[2] THEN <<>>
    ELSE rect

(* Mouse positions: on two corners of the image, and off it. *)
MousePositions == {<<0, 0>>, <<RectSize, RectSize>>, <<RectSize + 2, 1>>}

(* _mouse_over_image, lines 58-64. *)
mouse_over_image(rect, mouse) ==
    IF get_image_rect(rect) = <<>> THEN FALSE
    ELSE /\ rect[1] <= mouse[1] /\ mouse[1] <= rect[3]
         /\ rect[2] <= mouse[2] /\ mouse[2] <= rect[4]

(* Position of the mouse across the widget, clamped to [0, 1]. *)
RelOf(m, lo, hi) == clamp(((m - lo) * One) \div (hi - lo), 0, One)

(* The pan that keeps the point under the mouse where it is, line 92, 111. *)
PanAfterZoom(pan, rel, old_zoom, new_zoom) ==
    clamp(pan + (rel * UvOf(old_zoom)) \div One - (rel * UvOf(new_zoom)) \div One,
          0, MaxPan(new_zoom))

(* The zoom changes and the pan stays what it was. *)
handle_wheel_keepPan(v, app_data, rect, mouse) ==
    IF get_image_rect(rect) = <<>> THEN [v |-> v, returned |-> FALSE]
    ELSE IF ~mouse_over_image(rect, mouse) THEN [v |-> v, returned |-> FALSE]
    ELSE LET new_zoom == clamp(IF app_data > 0 THEN ZoomIn(v.zoom) ELSE ZoomOut(v.zoom),
                               One, ZoomMax)
         IN  IF new_zoom = v.zoom THEN [v |-> v, returned |-> FALSE]
             ELSE [v |-> [v EXCEPT !.zoom = new_zoom], returned |-> TRUE]

(* handle_wheel, lines 66-113. *)
handle_wheel(v, app_data, rect, mouse) ==
    IF get_image_rect(rect) = <<>> THEN [v |-> v, returned |-> FALSE]
    ELSE IF ~mouse_over_image(rect, mouse) THEN [v |-> v, returned |-> FALSE]
    ELSE LET rel_x == RelOf(mouse[1], rect[1], rect[3])
             rel_y == RelOf(mouse[2], rect[2], rect[4])
             new_zoom == clamp(IF app_data > 0 THEN ZoomIn(v.zoom) ELSE ZoomOut(v.zoom),
                               One, ZoomMax)
         IN  IF new_zoom = v.zoom THEN [v |-> v, returned |-> FALSE]
             ELSE IF new_zoom <= One
                  THEN [v |-> [v EXCEPT !.zoom = new_zoom, !.pan_x = 0, !.pan_y = 0],
                        returned |-> TRUE]
             ELSE [v |-> [v EXCEPT !.zoom = new_zoom,
                                   !.pan_x = PanAfterZoom(v.pan_x, rel_x, v.zoom, new_zoom),
                                   !.pan_y = PanAfterZoom(v.pan_y, rel_y, v.zoom, new_zoom)],
                   returned |-> TRUE]

(* handle_click, lines 115-135. *)
handle_click(v, rect, mouse) ==
    IF v.zoom <= One THEN [v |-> v, returned |-> FALSE]
    ELSE IF ~mouse_over_image(rect, mouse)
         THEN [v |-> [v EXCEPT !.is_dragging = FALSE], returned |-> FALSE]
    ELSE [v |-> [v EXCEPT !.is_dragging = TRUE,
                          !.drag_start_x = mouse[1], !.drag_start_y = mouse[2],
                          !.drag_start_pan_x = v.pan_x, !.drag_start_pan_y = v.pan_y],
          returned |-> TRUE]

(* The pan a drag of delta pixels gives, lines 170-181. *)
PanAfterDrag(start_pan, delta, widget, zoom) ==
    clamp(start_pan - (((delta * One) \div widget) * UvOf(zoom)) \div One, 0, MaxPan(zoom))

(* The drag goes on whether or not handle_click started one. *)
handle_drag_always(v, button, rect, mouse) ==
    IF v.zoom <= One THEN [v |-> v, returned |-> FALSE]
    ELSE IF ~mouse_over_image(rect, mouse)
         THEN [v |-> [v EXCEPT !.is_dragging = FALSE], returned |-> FALSE]
    ELSE LET new_pan_x == PanAfterDrag(v.drag_start_pan_x, mouse[1] - v.drag_start_x,
                                       rect[3] - rect[1], v.zoom)
             new_pan_y == PanAfterDrag(v.drag_start_pan_y, mouse[2] - v.drag_start_y,
                                       rect[4] - rect[2], v.zoom)
         IN  [v |-> [v EXCEPT !.pan_x = new_pan_x, !.pan_y = new_pan_y],
              returned |-> new_pan_x # v.pan_x \/ new_pan_y # v.pan_y]

(* handle_drag, lines 137-186.  button is what is_mouse_button_down says:  *)
(* "down", "up", or "raises", which the except clause passes over.         *)
handle_drag(v, button, rect, mouse) ==
    IF ~v.is_dragging \/ v.zoom <= One THEN [v |-> v, returned |-> FALSE]
    ELSE IF button = "up"
         THEN [v |-> [v EXCEPT !.is_dragging = FALSE], returned |-> FALSE]
    ELSE IF ~mouse_over_image(rect, mouse)
         THEN [v |-> [v EXCEPT !.is_dragging = FALSE], returned |-> FALSE]
    ELSE LET new_pan_x == PanAfterDrag(v.drag_start_pan_x, mouse[1] - v.drag_start_x,
                                       rect[3] - rect[1], v.zoom)
             new_pan_y == PanAfterDrag(v.drag_start_pan_y, mouse[2] - v.drag_start_y,
                                       rect[4] - rect[2], v.zoom)
         IN  [v |-> [v EXCEPT !.pan_x = new_pan_x, !.pan_y = new_pan_y],
              returned |-> new_pan_x # v.pan_x \/ new_pan_y # v.pan_y]

(* handle_release, lines 188-190. *)
handle_release(v) == [v EXCEPT !.is_dragging = FALSE]

(* Panels the layout offers: smaller than the margins (width-limited), and *)
(* a wide one (height-limited).                                            *)
Panels == {<<20, 100>>, <<448, 315>>}
StatusBarHeight == 115

(* The base size at zoom 1.0, lines 206-220; the aspect ratio is n / d. *)
BaseSize(panel_width, panel_height, aspect) ==
    LET avail_w == IF panel_width - 16 - 32 > 10 THEN panel_width - 16 - 32 ELSE 10
        avail_h == IF panel_height - StatusBarHeight - 32 > 10
                   THEN panel_height - StatusBarHeight - 32 ELSE 10
    IN  IF avail_w * aspect.d > avail_h * aspect.n
        THEN <<(avail_h * aspect.n) \div aspect.d, avail_h>>
        ELSE <<avail_w, (avail_w * aspect.d) \div aspect.n>>

(* resize, lines 192-253: the viewport it leaves and the tuple it returns. *)
resize(v, panel_width, panel_height) ==
    LET base == BaseSize(panel_width, panel_height, v.aspect_ratio)
        zoom == clamp(v.zoom, One, ZoomMax)
    IN  IF zoom > One
        THEN LET pan_x == clamp(v.pan_x, 0, MaxPan(zoom))
                 pan_y == clamp(v.pan_y, 0, MaxPan(zoom))
             IN  [v |-> [v EXCEPT !.base_image_size = base, !.zoom = zoom,
                                  !.pan_x = pan_x, !.pan_y = pan_y],
                  returned |-> <<base[1], base[2], <<pan_x, pan_y>>,
                                 <<pan_x + UvOf(zoom), pan_y + UvOf(zoom)>> >>]
        ELSE [v |-> [v EXCEPT !.base_image_size = base, !.zoom = zoom,
                              !.pan_x = 0, !.pan_y = 0],
              returned |-> <<base[1], base[2], <<0, 0>>, <<One, One>> >>]

(* __init__, lines 13-38; aspect_ratio as the builder sets it afterwards. *)
InitViewport ==
    /\ \E aspect \in {[n |-> 4, d |-> 3]} :
           viewport = [zoom |-> One, pan_x |-> 0, pan_y |-> 0, base_image_size |-> <<>>,
                       is_dragging |-> FALSE, drag_start_x |-> 0, drag_start_y |-> 0,
                       drag_start_pan_x |-> 0, drag_start_pan_y |-> 0,
                       aspect_ratio |-> aspect]
    /\ trace = [started |-> FALSE]
    /\ ret = NoRet
    /\ heap = <<>>
    /\ original = <<>>
    /\ profile = <<>>
    /\ win = 0
    /\ height = 0
    /\ gui = <<>>
    /\ calls = <<>>
    /\ save = <<>>
    /\ server = <<>>

HandleWheel ==
    /\ \E app_data \in {-1, 1}, rect \in Rects, mouse \in MousePositions :
       \E r \in {handle_wheel(viewport, app_data, rect, mouse)} :
           /\ viewport' = r.v
    /\ UNCHANGED <<heap, original, ret, profile, win, height, gui, trace, calls, save,
                   server>>

HandleClick ==
    /\ \E rect \in Rects, mouse \in MousePositions :
       \E r \in {handle_click(viewport, rect, mouse)} :
           /\ viewport' = r.v
           /\ trace' = [started |-> trace.started \/ r.returned]
    /\ UNCHANGED <<heap, original, ret, profile, win, height, gui, calls, save, server>>

HandleDrag ==
    /\ \E button \in {"down", "up", "raises"}, rect \in Rects, mouse \in MousePositions :
       \E r \in {handle_drag(viewport, button, rect, mouse)} :
           /\ viewport' = r.v
    /\ UNCHANGED <<heap, original, ret, profile, win, height, gui, trace, calls, save,
                   server>>

HandleRelease ==
    /\ viewport' = handle_release(viewport)
    /\ trace' = [started |-> FALSE]
    /\ UNCHANGED <<heap, original, ret, profile, win, height, gui, calls, save, server>>

Resize ==
    /\ \E panel \in Panels :
       \E r \in {resize(viewport, panel[1], panel[2])} :
           /\ viewport' = r.v
    /\ UNCHANGED <<heap, original, ret, profile, win, height, gui, trace, calls, save,
                   server>>

NextViewport == HandleWheel \/ HandleClick \/ HandleDrag \/ HandleRelease \/ Resize

SpecViewport == InitViewport /\ [][NextViewport]_vars

----------------------------------------------------------------------------
(* The camera REP server (experiments/zmq_server.py).  server holds the    *)
(* stored settings, whether the serving thread lives, where it is in its   *)
(* loop, the request it took and the payload it is about to send; ret is   *)
(* the last request with the settings it found and the reply sent; trace   *)
(* counts the requests taken from the socket and the replies sent.         *)

(* The "value" of a request: null, integers, a float with a fraction       *)
(* (n + 1/2), the strings "7" and "abc", a list, and 1e400, which the JSON *)
(* parser reads as inf.                                                    *)
Values ==
    {[type |-> t, n |-> 0] : t \in {"null", "word", "list", "inf"}}
        \cup {[type |-> "int", n |-> n] : n \in {-3, 5, 1000}}
        \cup {[type |-> "float", n |-> 2], [type |-> "digits", n |-> 7]}

(* The "args" of a request: absent, a list, or an object with a value. *)
Args ==
    {[type |-> t, value |-> [type |-> "null", n |-> 0]] : t \in {"absent", "list"}}
        \cup {[type |-> "dict", value |-> v] : v \in Values}

Commands == {"ping", "set_exposure_ms", "set_gain", "set_stack_n", "take_snapshot"}

(* The messages recv_json yields: objects with a known, an unknown or no   *)
(* cmd, and the JSON values that are no object: null, [], [1], "ping", 5.  *)
Messages ==
    {[json |-> "object", cmd |-> c, args |-> a] :
        c \in Commands \cup {"reboot", "absent"}, a \in Args}
        \cup {[json |-> j, cmd |-> "absent",
               args |-> [type |-> "absent", value |-> [type |-> "null", n |-> 0]]] :
                  j \in {"null", "empty array", "array", "string", "number"}}

(* int(value), lines 164, 171, 178. *)
IntOf(value) ==
    CASE value.type \in {"int", "float", "digits"} -> [raises |-> "", n |-> value.n]
      [] value.type = "word" -> [raises |-> "ValueError", n |-> 0]
      [] value.type = "list" -> [raises |-> "TypeError", n |-> 0]
      [] value.type = "inf" -> [raises |-> "OverflowError", n |-> 0]
      [] OTHER -> [raises |-> "TypeError", n |-> 0]

(* What _handle gives _serve: {"ok": True}, {"ok": False, "error": ...},  *)
(* or an exception.                                                        *)
Payload(ok, error, raises) == [ok |-> ok, error |-> error, raises |-> raises]

(* The try blocks of lines 163-182: int() of the value or the default,     *)
(* stored by Store; TypeError and ValueError are caught, the rest is not.  *)
SetFrom(srv, value, default, error, Store(_, _)) ==
    LET i == IF value.type = "null" THEN [raises |-> "", n |-> default] ELSE IntOf(value)
    IN  IF i.raises = "" THEN [srv |-> Store(srv, i.n), payload |-> Payload(TRUE, "", "")]
        ELSE IF i.raises \in {"TypeError", "ValueError"}
             THEN [srv |-> srv, payload |-> Payload(FALSE, error, "")]
        ELSE [srv |-> srv, payload |-> Payload(FALSE, "", i.raises)]

(* _take_snapshot, lines 189-215; the camera is not connected ("none"),    *)
(* delivers its frames, or acquisition times out.                          *)
take_snapshot(srv, camera) ==
    IF camera = "none" THEN [srv |-> srv, payload |-> Payload(FALSE, "Camera not connected", "")]
    ELSE IF camera = "timeout"
         THEN [srv |-> srv, payload |-> Payload(FALSE, "Frame acquisition timed out", "")]
    ELSE [srv |-> srv, payload |-> Payload(TRUE, "", "")]

(* _handle, lines 154-187: the settings it leaves and the payload it       *)
(* returns, or the exception it raises.  A message that is no object and   *)
(* not falsy has no get (line 155).                                        *)
handle(srv, msg, camera) ==
    IF msg.json \in {"array", "string", "number"}
    THEN [srv |-> srv, payload |-> Payload(FALSE, "", "AttributeError")]
    ELSE LET value == IF msg.args.type = "dict" THEN msg.args.value
                      ELSE [type |-> "null", n |-> 0]
         IN  CASE msg.cmd = "ping" -> [srv |-> srv, payload |-> Payload(TRUE, "", "")]
               [] msg.cmd = "set_exposure_ms" ->
                      SetFrom(srv, value, 100, "Invalid exposure_ms",
                              LAMBDA s, n : [s EXCEPT !.exposure_ms = n])
               [] msg.cmd = "set_gain" ->
                      SetFrom(srv, value, 0, "Invalid gain",
                              LAMBDA s, n : [s EXCEPT !.gain = n])
               [] msg.cmd = "set_stack_n" ->
                      SetFrom(srv, value, 1, "Invalid stack_n",
                              LAMBDA s, n : [s EXCEPT !.stack_n =
                                  IF (IF n > 999 THEN 999 ELSE n) < 1 THEN 1
                                  ELSE (IF n > 999 THEN 999 ELSE n)])
               [] msg.cmd = "take_snapshot" -> take_snapshot(srv, camera)
               [] OTHER -> [srv |-> srv, payload |-> Payload(FALSE, "Unknown command", "")]

(* __init__, lines 87-89, and the serving thread started, line 114-115. *)
InitServer ==
    /\ server = [exposure_ms |-> 100, gain |-> 0, stack_n |-> 1,
                 alive |-> TRUE, pc |-> "poll",
                 msg |-> <<>>, payload |-> <<>>, before |-> <<>>]
    /\ trace = [received |-> 0, replied |-> 0]
    /\ ret = NoRet
    /\ heap = <<>>
    /\ original = <<>>
    /\ profile = <<>>
    /\ win = 0
    /\ height = 0
    /\ gui = <<>>
    /\ calls = <<>>
    /\ save = <<>>
    /\ viewport = <<>>

(* Lines 135-141: a request is there and recv_json yields it. *)
Receive ==
    /\ server.alive /\ server.pc = "poll"
    /\ trace.received < MaxRequests
    /\ \E msg \in Messages :
           server' = [server EXCEPT !.pc = "handle", !.msg = msg]
    /\ trace' = [trace EXCEPT !.received = @ + 1]
    /\ UNCHANGED <<heap, original, ret, profile, win, height, gui, calls, save, viewport>>

(* Lines 141-144: the request is no JSON, recv_json raises, the error is   *)
(* the payload.                                                            *)
ReceiveGarbled ==
    /\ server.alive /\ server.pc = "poll"
    /\ trace.received < MaxRequests
    /\ server' = [server EXCEPT !.pc = "reply", !.msg = [json |-> "garbled"],
                                !.payload = Payload(FALSE, "JSONDecodeError", ""),
                                !.before = [exposure_ms |-> server.exposure_ms,
                                            gain |-> server.gain,
                                            stack_n |-> server.stack_n]]
    /\ trace' = [trace EXCEPT !.received = @ + 1]
    /\ UNCHANGED <<heap, original, ret, profile, win, height, gui, calls, save, viewport>>

(* Line 145: payload = self._handle(msg); an exception _handle lets out    *)
(* ends _serve and with it the thread.                                     *)
Handle ==
    /\ server.alive /\ server.pc = "handle"
    /\ \E camera \in {"none", "frames", "timeout"} :
       \E r \in {handle(server, server.msg, camera)} :
           /\ server' = IF r.payload.raises # ""
                         THEN [server EXCEPT !.alive = FALSE, !.payload = r.payload]
                         ELSE [r.srv EXCEPT !.pc = "reply", !.payload = r.payload,
                                            !.before = [exposure_ms |-> server.exposure_ms,
                                                        gain |-> server.gain,
                                                        stack_n |-> server.stack_n]]
           /\ ret' = IF r.payload.raises # ""
                      THEN [op |-> "request", msg |-> server.msg, camera |-> camera,
                            raised |-> r.payload.raises]
                      ELSE ret
    /\ UNCHANGED <<heap, original, profile, win, height, gui, trace, calls, save, viewport>>

(* Lines 146-152: the payload is sent. *)
Reply ==
    /\ server.alive /\ server.pc = "reply"
    /\ server' = [server EXCEPT !.pc = "poll", !.msg = <<>>, !.payload = <<>>,
                                !.before = <<>>]
    /\ ret' = [op |-> "request", msg |-> server.msg, before |-> server.before,
               after |-> [exposure_ms |-> server.exposure_ms, gain |-> server.gain,
                          stack_n |-> server.stack_n],
               reply |-> server.payload]
    /\ trace' = [trace EXCEPT !.replied = @ + 1]
    /\ UNCHANGED <<heap, original, profile, win, height, gui, calls, save, viewport>>

NextServer == Receive \/ ReceiveGarbled \/ Handle \/ Reply

SpecServer == InitServer /\ [][NextServer]_vars

----------------------------------------------------------------------------
(* A caller handing the image correct returned back to correct, with the   *)
(* same width, offset and window, pass after pass.                         *)

RowC == <<65000, 900, 1000>>

RepeatImages ==
    UNION {{[h |-> n, w |-> ImgW, dtype |-> "uint16", px |-> p] :
                p \in [1..n -> Rows \cup {RowC}]} : n \in 1..MaxH}

InitRepeat ==
    /\ original \in RepeatImages
    /\ heap = (InputAddr :> original)
    /\ ret = NoRet
    /\ profile = <<>>
    /\ win = 0
    /\ Idle

(* One pass over the array at address a; the result names the array the   *)
(* pass read and the one it returned.                                      *)
Pass(a, n, black_w, black_offset, smooth_win, nanAs) ==
    \E r \in {correct_banding(heap, a, black_w, black_offset, smooth_win, FALSE,
                               FromInt(DefaultThreshold), FALSE, nanAs)} :
        /\ heap' = r.heap
        /\ ret' = [op |-> "pass", n |-> n, black_w |-> black_w,
                   black_offset |-> black_offset, smooth_win |-> smooth_win,
                   raised |-> ~r.ok, before |-> a, img |-> r.addr, band |-> r.band]

FirstPass ==
    /\ ret.op = "none"
    /\ \E black_w \in BlackWs, black_offset \in BlackOffsets, smooth_win \in SmoothWins,
          nanAs \in NaNCastOutcomes :
          /\ ~StripeEmpty(heap[InputAddr].w, black_offset, black_w) => nanAs = 0
          /\ Pass(InputAddr, 1, black_w, black_offset, smooth_win, nanAs)
    /\ UNCHANGED <<original, profile, win, apart>>

Reapply ==
    /\ ret.op = "pass" /\ ~ret.raised /\ ret.n < MaxPasses
    /\ \E nanAs \in NaNCastOutcomes :
          /\ ~StripeEmpty(heap[ret.img].w, ret.black_offset, ret.black_w) => nanAs = 0
          /\ Pass(ret.img, ret.n + 1, ret.black_w, ret.black_offset, ret.smooth_win, nanAs)
    /\ UNCHANGED <<original, profile, win, apart>>

NextRepeat == FirstPass \/ Reapply

SpecRepeat == InitRepeat /\ [][NextRepeat]_vars

----------------------------------------------------------------------------
(* Claims about the smoother, checked under SpecSmooth. *)

Clamp(i, lo, hi) == IF i < lo THEN lo ELSE IF i > hi THEN hi ELSE i

(* The mean of the w samples around position i (1-based) of x, the window  *)
(* starting w \div 2 to the left, positions outside x standing for the      *)
(* nearest end of x.                                                        *)
ClampedMean(x, w, i) ==
    RDivInt(Sum([k \in 1..w |-> x[Clamp(i - (w \div 2) + k - 1, 1, Len(x))]]), w)

(* C5: for every profile and every window below 3, zero and negative ones  *)
(* included, the smoother returns a sequence of the same length whose      *)
(* every element equals the input's.                                       *)
C5_SmootherIdentity ==
    (ret.op = "smooth" /\ win < 3) =>
        /\ ~ret.raised
        /\ Len(ret.out) = Len(profile)
        /\ \A i \in 1..Len(profile) : ret.out[i] = profile[i]

C5_Witness ==
    /\ ret.op = "smooth" /\ win = 2 /\ ~ret.raised
    /\ profile = <<FromInt(0), Rat(7, 2), FromInt(SampleMax)>>
    /\ ret.out = profile

(* C6: for every profile of length N >= 1 and every window >= 3, also one  *)
(* larger than N, the smoother does not raise and returns N elements.      *)
C6_SmootherLength ==
    (ret.op = "smooth" /\ win >= 3 /\ Len(profile) >= 1) =>
        ~ret.raised /\ Len(ret.out) = Len(profile)

C6_Witness ==
    /\ ret.op = "smooth" /\ win >= 3 /\ Len(profile) = 1 /\ win > 2 * Len(profile)
    /\ ~ret.raised /\ Len(ret.out) = 1

(* C7: for a window w >= 3 and a profile x of length N >= 1, output i is   *)
(* the mean of x at the w positions i - w \div 2 .. i - w \div 2 + w - 1,   *)
(* each clamped into x (edge values replicated, an even window taking one  *)
(* more sample on the left).                                               *)
C7_SmootherDefinition ==
    (ret.op = "smooth" /\ win >= 3 /\ Len(profile) >= 1) =>
        /\ ~ret.raised
        /\ DOMAIN ret.out = 1..Len(profile)
        /\ \A i \in 1..Len(profile) : ret.out[i] = ClampedMean(profile, win, i)

C7_Witness ==
    /\ ret.op = "smooth" /\ win = 4
    /\ profile = <<FromInt(0), FromInt(1), Rat(7, 2)>>
    /\ ret.out = <<Rat(1, 4), Rat(9, 8), Rat(2, 1)>>

(* C8: smoothing a constant profile of length N >= 1 returns that profile, *)
(* for every constant and every window.                                    *)
C8_SmootherConstant ==
    (/\ ret.op = "smooth"
     /\ Len(profile) >= 1
     /\ \A i \in 1..Len(profile) : profile[i] = profile[1]) =>
        ~ret.raised /\ ret.out = profile

C8_Witness ==
    /\ ret.op = "smooth" /\ win = 5 /\ ~ret.raised
    /\ profile = <<FromInt(SampleMax), FromInt(SampleMax), FromInt(SampleMax)>>
    /\ ret.out = profile

----------------------------------------------------------------------------
(* Claims about correct_banding, detect_banding and optimize_smooth_window, *)
(* checked under Spec.                                                      *)

(* A stripe of at least one column lying inside an image of width w. *)
ValidStripe(w, black_offset, black_w) ==
    black_w >= 1 /\ black_offset >= 0 /\ black_offset + black_w <= w

(* The median of row r of img over the 0-based columns                     *)
(* [W - offset - width, W - offset).                                       *)
StripeMedian(img, r, black_offset, black_w) ==
    Median([c \in 1..black_w |->
               FromInt(img.px[r][img.w - black_offset - black_w + c])])

(* band[r] = ref[r] - slow[r] with slow = smooth(ref, window). *)
BandResidual(img, black_offset, black_w, window) ==
    Bind([r \in 1..img.h |-> StripeMedian(img, r, black_offset, black_w)], LAMBDA ref :
    Bind(moving_average_1d(ref, window).v, LAMBDA slow :
        [r \in 1..img.h |-> RSub(ref[r], slow[r])]))

(* A real clipped to [0, 65535] and cast to integer. *)
Saturate(v) ==
    IF RLess(v, Zero) THEN 0
    ELSE IF RLess(FromInt(SampleMax), v) THEN SampleMax
    ELSE v.n \div v.d

(* C1: with both auto flags off, for every image of at least one row and   *)
(* every valid width, offset and window, every sample (r, c) of the        *)
(* returned image, over the full width, is image[r, c] - band[r] clipped   *)
(* to [0, 65535] and cast to integer, band being the residual of the       *)
(* per-row medians of columns [W - offset - width, W - offset).            *)
C1_HorizontalCorrect ==
    (/\ ret.op = "correct" /\ ~ret.auto_detect /\ ~ret.auto_optimize
     /\ original.h >= 1
     /\ ValidStripe(original.w, ret.black_offset, ret.black_w)) =>
        /\ ~ret.raised
        /\ Bind(BandResidual(original, ret.black_offset, ret.black_w, ret.smooth_win),
                LAMBDA band :
           Bind(heap[ret.img], LAMBDA out :
               /\ out.h = original.h /\ out.w = original.w
               /\ \A r \in 1..original.h, c \in 1..original.w :
                      out.px[r][c] =
                          Saturate(RSub(FromInt(original.px[r][c]), band[r]))))

C1_Witness ==
    /\ ret.op = "correct" /\ ~ret.auto_detect /\ ~ret.auto_optimize /\ ~ret.raised
    /\ original.px = <<RowA, RowB>>
    /\ ret.black_w = 1 /\ ret.black_offset = 2 /\ ret.smooth_win = 3
    /\ heap[ret.img].px = <<<<65534, 0, 99>>, <<65533, 2, 104>>>>

(* C2: whatever the input and the parameters, every sample of the image    *)
(* correct returns lies in [0, 65535]; where the correction was applied    *)
(* to a valid stripe, a sample whose corrected value is negative is 0 and  *)
(* one whose corrected value exceeds 65535 is 65535.                       *)
C2_ValueRange ==
    (ret.op = "correct" /\ ~ret.raised) =>
        Bind(heap[ret.img], LAMBDA out :
            /\ \A r \in 1..out.h, c \in 1..out.w : out.px[r][c] \in 0..SampleMax
            /\ (ret.applied /\ ValidStripe(original.w, ret.black_offset, ret.black_w)) =>
                   Bind(BandResidual(original, ret.black_offset, ret.black_w,
                                     ret.window), LAMBDA band :
                       \A r \in 1..out.h, c \in 1..out.w :
                           LET v == RSub(FromInt(original.px[r][c]), band[r])
                           IN  /\ RLess(v, Zero) => out.px[r][c] = 0
                               /\ RLess(FromInt(SampleMax), v) => out.px[r][c] = SampleMax))

C2_Witness ==
    /\ ret.op = "correct" /\ ret.applied /\ ~ret.raised
    /\ original.px = <<RowA, RowB>>
    /\ ret.black_w = 1 /\ ret.black_offset = 0 /\ ret.smooth_win = 5
    /\ ~ret.auto_optimize
    /\ heap[ret.img].px = <<<<65535, 1, 101>>, <<65530, 0, 101>>>>

(* C3: after any sequence of calls of correct, detect and optimize the     *)
(* input array holds the values it held before, and the array a completed  *)
(* call of correct returns, on the corrected path and on the short         *)
(* circuit alike, is another array than the input.                         *)
C3_NonMutation ==
    /\ InputAddr \in DOMAIN heap
    /\ heap[InputAddr] = original
    /\ (ret.op = "correct" /\ ~ret.raised) =>
           ret.img \in DOMAIN heap /\ ret.img # InputAddr

C3_Witness ==
    /\ ret.op = "correct" /\ ~ret.raised /\ ret.auto_detect /\ ~ret.applied
    /\ original.h = MaxH
    /\ ret.img # InputAddr
    /\ heap[ret.img] = heap[InputAddr]
    /\ heap[InputAddr] = original

(* C4: correct, detect and optimize fail with an error when the width is   *)
(* <= 0 or the stripe [W - offset - width, W - offset) leaves the image.   *)
C4_StripeErrors ==
    (/\ ret.op \in {"correct", "detect", "optimize"}
     /\ ~ValidStripe(original.w, ret.black_offset, ret.black_w)) =>
        ret.raised

(* C9: a completed call of correct with auto_detect on and no banding      *)
(* detected returns an image equal to the input and applied = false; every *)
(* other completed call returns applied = true.                            *)
C9_ShortCircuit ==
    (ret.op = "correct" /\ ~ret.raised) =>
        Bind(detect_banding(original, ret.black_w, ret.black_offset, ret.window,
                            ret.threshold), LAMBDA det :
            IF ret.auto_detect /\ ~det.has_banding
            THEN heap[ret.img] = original /\ ~ret.applied
            ELSE ret.applied)

C9_Witness ==
    /\ ret.op = "correct" /\ ~ret.raised /\ ret.auto_detect /\ ~ret.applied
    /\ original.px = <<RowA, RowB>>
    /\ ret.black_w = 1 /\ ret.black_offset = 0 /\ ret.smooth_win = 3
    /\ ret.threshold = FromInt(1)
    /\ heap[ret.img] = original

(* C10: detect reports has_banding exactly when band_std is strictly       *)
(* greater than the threshold: false at the threshold and below it, and    *)
(* false for a band_std that is NaN.                                       *)
C10_DetectorThreshold ==
    (ret.op = "detect" /\ ~ret.raised) =>
        (ret.has_banding <=>
            /\ IsFinite(ret.band_std)
            /\ RLess(RMul(ret.threshold, ret.threshold), ret.band_std))

C10_Witness ==
    /\ ret.op = "detect" /\ ~ret.raised
    /\ original.px = <<RowA, RowB>>
    /\ ret.black_w = 1 /\ ret.black_offset = 0 /\ ret.smooth_win = 3
    /\ ret.band_std = FromInt(1) /\ ret.threshold = FromInt(1)
    /\ ~ret.has_banding

(* The score of a window: the standard deviation (as its square) of the    *)
(* per-row medians of the stripe after band[r] is taken from row r.        *)
ScoreOf(img, black_offset, black_w, window) ==
    Bind(BandResidual(img, black_offset, black_w, window), LAMBDA band :
        Std([r \in 1..img.h |->
                Median([c \in 1..black_w |->
                           RSub(FromInt(img.px[r][img.w - black_offset - black_w + c]),
                                band[r])])]))

(* C11: a completed optimize on a valid stripe of an image with rows       *)
(* returns a member of the candidate list with best_score its score, no    *)
(* candidate scoring strictly lower, and every candidate before it in the  *)
(* list scoring strictly higher (the first of the lowest wins a tie).      *)
C11_OptimizerSelection ==
    (/\ ret.op = "optimize" /\ ~ret.raised
     /\ original.h >= 1
     /\ ValidStripe(original.w, ret.black_offset, ret.black_w)) =>
        Bind([i \in 1..Len(ret.tested) |->
                 ScoreOf(original, ret.black_offset, ret.black_w, ret.tested[i])],
             LAMBDA score :
            \E i \in 1..Len(ret.tested) :
                /\ ret.best_window = ret.tested[i]
                /\ ret.best_score = score[i]
                /\ \A j \in 1..Len(ret.tested) : ~RLess(score[j], score[i])
                /\ \A j \in 1..(i - 1) : RLess(score[i], score[j]))

C11_Witness ==
    /\ ret.op = "optimize" /\ ~ret.raised
    /\ original.px = <<RowA, RowA>>
    /\ ret.black_w = 1 /\ ret.black_offset = 0
    /\ ret.tested = <<MaxWin, 3>>
    /\ ret.best_window = MaxWin /\ ret.best_score = Zero

(* C12: with no candidate list supplied, the candidates for an image of    *)
(* height h are exactly the integers 10, 15, 20, ... up to                 *)
(* min(512, h \div 4) inclusive, in ascending order, and exactly           *)
(* 10, 32, 64, 128, 256 when there is no such integer (h \div 4 < 10).     *)
C12_DefaultCandidates ==
    (ret.op = "candidates") =>
        LET top == IF height \div 4 < 512 THEN height \div 4 ELSE 512
            l == ret.list
        IN  IF top < 10
            THEN l = <<10, 32, 64, 128, 256>>
            ELSE /\ {l[i] : i \in 1..Len(l)} = {n \in 10..top : (n - 10) % 5 = 0}
                 /\ \A i \in 1..(Len(l) - 1) : l[i] < l[i + 1]

C12_Witness ==
    /\ ret.op = "candidates"
    /\ height = 2060
    /\ Len(ret.list) = 101
    /\ ret.list[1] = 10 /\ ret.list[2] = 15 /\ ret.list[101] = 510

----------------------------------------------------------------------------
(* Claims about process_frame, checked under SpecFrame. *)

(* The settings and the stored window of an axis. *)
AxisKeys(axis) ==
    IF axis = "horizontal"
    THEN [enabled |-> "banding_enabled", auto |-> "banding_auto_optimize",
          stored |-> "banding_optimized_win"]
    ELSE [enabled |-> "vertical_banding_enabled",
          auto |-> "vertical_banding_auto_optimize",
          stored |-> "vertical_banding_optimized_win"]

(* The positions of trace t where op was done for axis. *)
EventsOf(t, op, axis) == {i \in 1..Len(t) : t[i].op = op /\ t[i].axis = axis}

(* What one call of process_frame, from application state g to g2 with     *)
(* the events t, has to do about the stored window of an axis.             *)
CacheRule(g, g2, t, axis) ==
    LET k == AxisKeys(axis)
        ran == EventsOf(t, "optimize", axis)
    IN  /\ Cardinality(ran) <= 1
        /\ ran # {} <=> (g[k.enabled] /\ g[k.auto] /\ g[k.stored] = None)
        /\ \A i \in ran : g2[k.stored] = t[i].win /\ g2[k.stored] # None
        /\ g[k.stored] # None =>
               /\ g2[k.stored] = g[k.stored]
               /\ (g[k.enabled] /\ g[k.auto]) =>
                      \A i \in EventsOf(t, "correct", axis) : t[i].win = g[k.stored]

(* C13: in every call of process_frame, the optimizer of an axis runs      *)
(* exactly when the axis is enabled, its auto-optimize flag is on and its  *)
(* stored window is None; the call then stores the result; with a window   *)
(* stored the call leaves it as it is, does not run the optimizer and      *)
(* corrects with the stored window.                                        *)
C13_OptimizedWindowCache ==
    [][ProcessFrame =>
           /\ CacheRule(gui, gui', trace', "horizontal")
           /\ CacheRule(gui, gui', trace', "vertical")]_vars

C13_Witness ==
    /\ ret.op = "frame"
    /\ ret.gui.banding_enabled /\ ret.gui.banding_auto_optimize
    /\ ~ret.gui.vertical_banding_enabled
    /\ ret.gui.banding_optimized_win = 15
    /\ gui.banding_optimized_win = 15
    /\ trace = <<[op |-> "correct", axis |-> "horizontal", input |-> <<>>, win |-> 15]>>

(* The frame after the corrections among the first n events of t. *)
FrameAfter(t, n) ==
    LET done == SelectSeq(SubSeq(t, 1, n), LAMBDA e : e.op = "correct")
    IN  [i \in 1..Len(done) |-> [axis |-> done[i].axis, win |-> done[i].win]]

(* C14: the enabled axes are corrected once each, vertical first when      *)
(* vertical_banding_first is set and horizontal first otherwise; every     *)
(* optimizer and correction takes the frame as the corrections before it   *)
(* left it; a disabled axis is never corrected.                            *)
C14_CorrectionOrder ==
    (ret.op = "frame") =>
        LET g == ret.gui
            order == IF g.vertical_banding_first
                     THEN <<"vertical", "horizontal">>
                     ELSE <<"horizontal", "vertical">>
            due == SelectSeq(order, LAMBDA a : g[AxisKeys(a).enabled])
            done == FrameAfter(trace, Len(trace))
        IN  /\ [i \in 1..Len(done) |-> done[i].axis] = due
            /\ \A i \in 1..Len(trace) : trace[i].input = FrameAfter(trace, i - 1)
            /\ \A i \in 1..Len(trace) :
                   trace[i].op = "optimize" =>
                       /\ i < Len(trace)
                       /\ trace[i + 1].op = "correct"
                       /\ trace[i + 1].axis = trace[i].axis
            /\ ret.frame = done

C14_Witness ==
    /\ ret.op = "frame"
    /\ ret.gui.vertical_banding_first
    /\ ret.gui.banding_optimized_win = None
    /\ trace = <<[op |-> "correct", axis |-> "vertical", input |-> <<>>, win |-> 4],
                 [op |-> "optimize", axis |-> "horizontal",
                  input |-> <<[axis |-> "vertical", win |-> 4]>>, win |-> 10],
                 [op |-> "correct", axis |-> "horizontal",
                  input |-> <<[axis |-> "vertical", win |-> 4]>>, win |-> 10]>>
    /\ ret.frame = <<[axis |-> "vertical", win |-> 4], [axis |-> "horizontal", win |-> 10]>>

----------------------------------------------------------------------------
(* More claims about the core functions, checked under Spec. *)

(* The standard deviation (as its square) of the per-row stripe medians    *)
(* before any correction.                                                  *)
StdBefore(img, black_offset, black_w) ==
    Std([r \in 1..img.h |-> StripeMedian(img, r, black_offset, black_w)])

(* A call of correct on a valid stripe of an image with rows that did not  *)
(* take the short circuit.                                                 *)
CorrectionRan ==
    /\ ret.op = "correct"
    /\ original.h >= 1
    /\ ValidStripe(original.w, ret.black_offset, ret.black_w)
    /\ ret.raised \/ ret.applied

(* The image correct returned is the corrected one. *)
ReturnedCorrected ==
    Bind(BandResidual(original, ret.black_offset, ret.black_w, ret.window), LAMBDA band :
    Bind(heap[ret.img], LAMBDA out :
        \A r \in 1..original.h, c \in 1..original.w :
            out.px[r][c] = Saturate(RSub(FromInt(original.px[r][c]), band[r]))))

(* C15 as stated: whenever the re-measured standard deviation has not      *)
(* dropped below 30% of the one before, correct warns, and returns the     *)
(* corrected image with applied = true without raising.                    *)
C15_WarnsWhenNotBelow ==
    (/\ CorrectionRan
     /\ ~RLess(ScoreOf(original, ret.black_offset, ret.black_w, ret.window),
               RMul(Rat(9, 100), StdBefore(original, ret.black_offset, ret.black_w)))) =>
        ret.warned /\ ~ret.raised /\ ret.applied /\ ReturnedCorrected

(* C15 amended: correct warns exactly when the re-measured standard        *)
(* deviation is strictly greater than 30% of the one before (not at        *)
(* equality, so not for a flat stripe); warned or not, it returns the      *)
(* corrected image with applied = true and raises nothing.                 *)
C15_WarningOnly ==
    CorrectionRan =>
        /\ ~ret.raised /\ ret.applied /\ ReturnedCorrected
        /\ ret.warned <=>
               RLess(RMul(Rat(9, 100), StdBefore(original, ret.black_offset, ret.black_w)),
                     ScoreOf(original, ret.black_offset, ret.black_w, ret.window))

C15_Witness ==
    /\ ret.op = "correct" /\ ~ret.auto_detect /\ ~ret.auto_optimize
    /\ original.px = <<RowA, RowB>>
    /\ ret.black_w = 1 /\ ret.black_offset = 0 /\ ret.smooth_win = 3
    /\ ret.warned /\ ret.applied /\ ~ret.raised
    /\ heap[ret.img].px = <<<<65535, 1, 101>>, <<65531, 0, 102>>>>

(* The stripe of the call's image reduces to a profile with a NaN or an    *)
(* infinity in it.                                                         *)
ProfileNotFinite ==
    Bind(AsTypeF32Img(original), LAMBDA img :
    Bind(MedianRows(ColSlice(img, ColStart(img.w, ret.black_offset, ret.black_w),
                             ColEnd(img.w, ret.black_offset))), LAMBDA ref :
        \E r \in 1..Len(ref) : ~IsFinite(ref[r])))

(* C16 as stated: when the reference stripe reduces to a profile holding   *)
(* NaN or inf, correct signals an error; it returns no image.              *)
C16_DegenerateRejected ==
    (ret.op = "correct" /\ ProfileNotFinite) => ret.raised

(* C17 as stated: for every input image, the array correct returns has the *)
(* input's shape (H x W) and the input's integer sample type.              *)
C17_ShapeAndType ==
    (ret.op = "correct" /\ ~ret.raised) =>
        /\ heap[ret.img].h = original.h
        /\ heap[ret.img].w = original.w
        /\ heap[ret.img].dtype = original.dtype

(* C18: the band whose standard deviation detect reports is the band       *)
(* correct subtracts, for the same image, width, offset and window: a      *)
(* call of detect has the band a correction with its arguments subtracts,  *)
(* and reports that band's deviation; a call of correct that applied the   *)
(* correction subtracted, row by row, the band detect has for its          *)
(* arguments and the window it used.                                       *)
C18_DetectorCorrectorAgree ==
    /\ (ret.op = "detect" /\ ~ret.raised) =>
           Bind(CorrectApply(heap, InputAddr, ret.black_w, ret.black_offset,
                             ret.smooth_win, 0), LAMBDA c :
               /\ ret.band_std = Std(ret.band)
               /\ c.ok => c.band = ret.band)
    /\ (ret.op = "correct" /\ ret.applied) =>
           Bind(detect_banding(original, ret.black_w, ret.black_offset, ret.window,
                               ret.threshold), LAMBDA d :
           Bind(heap[ret.img], LAMBDA out :
               /\ d.ok
               /\ d.band = ret.band
               /\ d.band_std = Std(ret.band)
               /\ \A r \in 1..original.h, c \in 1..original.w :
                      IsFinite(d.band[r]) =>
                          out.px[r][c] = Saturate(RSub(FromInt(original.px[r][c]),
                                                       d.band[r]))))

(* correct, asked to detect first, found banding in a stripe one column   *)
(* wide, one column in from the edge, with window 3, on two rows whose     *)
(* stripe samples are 0 and 1, and subtracted the band (-1/3, 1/3).        *)
C18_Witness ==
    /\ original.px = <<RowA, RowB>>
    /\ ret.op = "correct" /\ ret.auto_detect /\ ~ret.auto_optimize /\ ret.applied
    /\ ret.black_w = 1 /\ ret.black_offset = 1 /\ ret.smooth_win = 3
    /\ ret.band = <<Rat(-1, 3), Rat(1, 3)>>
    /\ heap[ret.img].px = <<<<65535, 0, 100>>, <<65531, 0, 102>>>>

----------------------------------------------------------------------------
(* Claims about repeated correction, checked under SpecRepeat. *)

(* The largest change a pass made to a sample. *)
PassChange ==
    Bind(heap[ret.before], LAMBDA old :
    Bind(heap[ret.img], LAMBDA new :
        CHOOSE m \in {Abs(new.px[r][c] - old.px[r][c]) : r \in 1..old.h, c \in 1..old.w} :
            \A r \in 1..old.h, c \in 1..old.w : Abs(new.px[r][c] - old.px[r][c]) <= m))

(* C19 as stated: a pass of correct over its own output, with the same     *)
(* width, offset and window (a stripe inside the image), changes no sample *)
(* by more than what clipping and rounding account for, one grey level.    *)
C19_NearIdempotent ==
    (/\ ret.op = "pass" /\ ret.n >= 2 /\ ~ret.raised
     /\ ValidStripe(original.w, ret.black_offset, ret.black_w)) => PassChange <= 1

----------------------------------------------------------------------------
(* Claims about calls running side by side, checked under SpecConcurrent. *)

(* What the call c returns when it runs alone on its input. *)
Alone(c) ==
    Bind([a \in {c.input} |-> original[c.input]], LAMBDA h :
    IF c.kind = "detect"
    THEN Bind(detect_banding(h[c.input], c.black_w, c.black_offset, c.smooth_win,
                             FromInt(DefaultThreshold)), LAMBDA r :
             IF r.ok THEN [raised |-> FALSE, has_banding |-> r.has_banding,
                           band_std |-> r.band_std]
             ELSE [raised |-> TRUE])
    ELSE IF c.kind = "optimize"
    THEN Bind(optimize_smooth_window(h[c.input], c.black_w, c.black_offset,
                                     [given |-> TRUE, list |-> c.candidates]), LAMBDA r :
             IF r.ok THEN [raised |-> FALSE, best_window |-> r.best_window,
                           best_score |-> r.best_score]
             ELSE [raised |-> TRUE])
    ELSE Bind(correct_banding(h, c.input, c.black_w, c.black_offset, c.smooth_win,
                              FALSE, FromInt(DefaultThreshold), FALSE, 0), LAMBDA r :
             IF r.ok THEN [raised |-> FALSE, px |-> r.heap[r.addr], applied |-> r.applied,
                           warned |-> r.warned]
             ELSE [raised |-> TRUE]))

(* What the finished call of thread t returned, an image by its content. *)
Returned(t) ==
    Bind(calls[t].result, LAMBDA r :
        IF "img" \in DOMAIN r
        THEN [raised |-> r.raised, px |-> heap[r.img], applied |-> r.applied,
              warned |-> r.warned]
        ELSE r)

(* C21: calls of correct, detect and optimize on disjoint input arrays do  *)
(* not interfere: under every interleaving of their statements a finished  *)
(* call has returned what it returns when it runs alone, and the inputs    *)
(* are as they were.                                                       *)
C21_Reentrancy ==
    \A t \in Threads :
        /\ heap[t] = original[t]
        /\ calls[t].pc = "done" =>
               Returned(t) = Alone(calls[t])

(* Two calls of correct on different images took turns statement by        *)
(* statement (the arrays they made alternate in the heap) and each         *)
(* returned its own corrected image.                                       *)
C21_Witness ==
    /\ \A t \in Threads : calls[t].pc = "done" /\ calls[t].kind = "correct"
                              /\ calls[t].black_w = 1
    /\ original[1].px = <<RowA, RowB>> /\ original[2].px = <<RowA, RowA>>
    /\ heap[3] = AsTypeF32Img(original[1]) /\ heap[4] = AsTypeF32Img(original[2])
    /\ calls[1].result.img = 7 /\ calls[2].result.img = 8
    /\ heap[7].px = <<<<65535, 1, 101>>, <<65531, 0, 102>>>>
    /\ heap[8].px = <<RowA, RowA>>

----------------------------------------------------------------------------
(* More claims about the core functions, checked under Spec. *)

(* The reference profile of a valid stripe and its smoothing. *)
RefProfile == [r \in 1..original.h |->
                  StripeMedian(original, r, ret.black_offset, ret.black_w)]

SlowProfile(window) == moving_average_1d(RefProfile, window).v

(* C22: the reference profile measured again on the corrected image,       *)
(* before clipping, is the slow profile smooth(ref, window); and the score *)
(* the optimizer gives a candidate window w is the standard deviation of   *)
(* smooth(ref, w).                                                         *)
C22_CorrectedStripeIsSlowProfile ==
    (/\ ret.op \in {"correct", "optimize"}
     /\ original.h >= 1
     /\ ValidStripe(original.w, ret.black_offset, ret.black_w)) =>
        /\ (ret.op = "correct" /\ ret.applied) =>
               ret.corrected_ref = SlowProfile(ret.window)
        /\ (ret.op = "optimize" /\ ~ret.raised) =>
               /\ Len(ret.scores) = Len(ret.tested)
               /\ \A i \in 1..Len(ret.tested) :
                      ret.scores[i] = Std(SlowProfile(ret.tested[i]))
               /\ ret.best_score = Std(SlowProfile(ret.best_window))

(* optimize scored windows 3 and MaxWin on a stripe whose medians are 0    *)
(* and 1: the slow profile of window 3 is (1/3, 2/3), of deviation squared *)
(* 1/36, and the wider window's is flatter and wins.                       *)
C22_Witness ==
    /\ ret.op = "optimize" /\ ~ret.raised
    /\ original.px = <<RowA, RowB>>
    /\ ret.black_w = 1 /\ ret.black_offset = 1
    /\ ret.tested = <<3, MaxWin>>
    /\ ret.scores[1] = Rat(1, 36)
    /\ ret.best_window = MaxWin

(* The window the optimizer returns for the call's image and stripe. *)
OptimizedWindow ==
    optimize_smooth_window(original, ret.black_w, ret.black_offset, NoCandidates).best_window

(* C23: with auto_optimize and auto_detect both on, a call of correct that *)
(* returns ran the optimizer first, then the detector with the window the  *)
(* optimizer returned, and then, if the detector found banding, the        *)
(* correction with that same window; when the detector found none the     *)
(* call ends there, the optimizer having run.                              *)
C23_StageOrder ==
    (ret.op = "correct" /\ ret.auto_optimize /\ ret.auto_detect /\ ~ret.raised) =>
        Bind(OptimizedWindow, LAMBDA w :
        Bind(detect_banding(original, ret.black_w, ret.black_offset, w, ret.threshold),
             LAMBDA det :
            /\ ret.applied = det.has_banding
            /\ ret.window = w
            /\ ret.stages =
                   <<[stage |-> "optimize", window |-> w], [stage |-> "detect", window |-> w]>>
                   \o (IF ret.applied THEN <<[stage |-> "correct", window |-> w]>>
                       ELSE <<>>)))

(* Both flags on, the caller's window MaxWin: the optimizer returned 256,  *)
(* the detector ran with 256 and found banding, and the correction ran     *)
(* with 256.                                                               *)
C23_Witness ==
    /\ ret.op = "correct" /\ ret.auto_optimize /\ ret.auto_detect /\ ~ret.raised
    /\ original.px = <<RowA, RowB>>
    /\ ret.black_w = 1 /\ ret.smooth_win = MaxWin
    /\ ret.applied
    /\ ret.stages = <<[stage |-> "optimize", window |-> 256],
                      [stage |-> "detect", window |-> 256],
                      [stage |-> "correct", window |-> 256]>>

(* Both flags on: the detector found no banding and the call ended after   *)
(* the optimizer and the detector.                                         *)
C23_WitnessShortCircuit ==
    /\ ret.op = "correct" /\ ret.auto_optimize /\ ret.auto_detect /\ ~ret.raised
    /\ ~ret.applied
    /\ Len(ret.stages) = 2

----------------------------------------------------------------------------
(* More claims about process_frame, checked under SpecFrame. *)

(* The setting holding the configured smooth window of an axis. *)
ConfiguredKey(axis) ==
    IF axis = "horizontal" THEN "banding_smooth_win" ELSE "vertical_smooth_win"

(* Where one call of process_frame, from application state g to g2 with    *)
(* the events t, takes the window of an axis from.                         *)
WindowRule(g, g2, t, axis) ==
    LET k == AxisKeys(axis)
        ran == EventsOf(t, "optimize", axis)
        corrections == EventsOf(t, "correct", axis)
    IN  /\ ~g[k.enabled] =>
               ran = {} /\ corrections = {} /\ g2[k.stored] = g[k.stored]
        /\ (g[k.enabled] /\ ~g[k.auto]) =>
               /\ ran = {} /\ g2[k.stored] = g[k.stored]
               /\ Cardinality(corrections) = 1
               /\ \A i \in corrections : t[i].win = g[ConfiguredKey(axis)]
        /\ (g[k.enabled] /\ g[k.auto]) =>
               /\ g2[k.stored] # None
               /\ Cardinality(corrections) = 1
               /\ \A i \in corrections : t[i].win = g2[k.stored]
        /\ g2[ConfiguredKey(axis)] = g[ConfiguredKey(axis)]

(* C24: in every call of process_frame, an enabled axis whose              *)
(* auto-optimize flag is off runs no optimizer, leaves the stored window   *)
(* as it is and corrects with the configured smooth window; with the flag  *)
(* on it corrects with the stored optimized window, not the configured     *)
(* one; a disabled axis runs no optimizer and stores nothing.              *)
C24_WindowSource ==
    [][ProcessFrame =>
           /\ WindowRule(gui, gui', trace', "horizontal")
           /\ WindowRule(gui, gui', trace', "vertical")]_vars

(* A frame went through with the horizontal axis enabled, its flag off and *)
(* a window stored by an earlier frame: the correction took the configured *)
(* window 3 and the stored 10 stayed.                                      *)
C24_Witness ==
    /\ ret.op = "frame"
    /\ ret.gui.banding_enabled /\ ~ret.gui.banding_auto_optimize
    /\ ~ret.gui.vertical_banding_enabled
    /\ ret.gui.banding_optimized_win = 10 /\ gui.banding_optimized_win = 10
    /\ trace = <<[op |-> "correct", axis |-> "horizontal", input |-> <<>>, win |-> 3]>>

----------------------------------------------------------------------------
(* More claims about the core functions, checked under Spec. *)

(* C25: correct with both auto flags off and a window below 3, on a valid  *)
(* stripe of an image with rows: the slow profile is the reference         *)
(* profile, the band is zero in every row, and the call returns, with      *)
(* applied = true, an image whose samples are the input's.                 *)
C25_NoOpWindow ==
    (/\ ret.op = "correct" /\ ~ret.auto_detect /\ ~ret.auto_optimize
     /\ ret.smooth_win < SmoothFloor
     /\ original.h >= 1
     /\ ValidStripe(original.w, ret.black_offset, ret.black_w)) =>
        /\ ~ret.raised /\ ret.applied
        /\ ret.corrected_ref = RefProfile
        /\ ret.band = [r \in 1..original.h |-> Zero]
        /\ heap[ret.img].px = original.px
        /\ ret.img # InputAddr

C25_Witness ==
    /\ ret.op = "correct" /\ ~ret.auto_detect /\ ~ret.auto_optimize
    /\ ret.smooth_win = 2 /\ ret.black_w = 1 /\ ret.black_offset = 0
    /\ original.px = <<RowA, RowB>>
    /\ ret.applied /\ ret.band = <<Zero, Zero>>
    /\ heap[ret.img].px = <<RowA, RowB>>

(* C26: optimize given an empty candidate list substitutes nothing and     *)
(* ends with an error; a call that returns tested the list it was given,   *)
(* or, given none, the default list, which is the fallback                 *)
(* 10, 32, 64, 128, 256 when the default range is empty.                   *)
C26_EmptyCandidates ==
    ret.op = "optimize" =>
        /\ (ret.candidates.given /\ ret.candidates.list = <<>>) =>
               ret.raised /\ ret.tested = <<>>
        /\ (~ret.raised /\ ret.candidates.given) => ret.tested = ret.candidates.list
        /\ (~ret.raised /\ ~ret.candidates.given /\ original.h \div 4 < 10) =>
               ret.tested = <<10, 32, 64, 128, 256>>

(* optimize was handed an empty list for a two-row image and raised. *)
C26_Witness ==
    /\ ret.op = "optimize"
    /\ ret.candidates = [given |-> TRUE, list |-> <<>>]
    /\ original.px = <<RowA, RowB>> /\ ret.black_w = 1 /\ ret.black_offset = 0
    /\ ret.raised

(* The real value of sample (r, c) after the band is subtracted and the    *)
(* result is clipped to [0, 65535].                                        *)
ClippedValue(r, c) ==
    Bind(RSub(FromInt(original.px[r][c]), ret.band[r]), LAMBDA v :
        IF RLess(v, Zero) THEN Zero
        ELSE IF RLess(FromInt(SampleMax), v) THEN FromInt(SampleMax)
        ELSE v)

(* C27: each sample of a corrected image is its clipped real value with    *)
(* the fractional part dropped: the largest integer not above the value,   *)
(* never the nearest integer above it.                                     *)
C27_ConversionTruncates ==
    (/\ ret.op = "correct" /\ ret.applied
     /\ ValidStripe(original.w, ret.black_offset, ret.black_w)) =>
        \A r \in 1..original.h, c \in 1..original.w :
            Bind(heap[ret.img].px[r][c], LAMBDA out :
                /\ ~RLess(ClippedValue(r, c), FromInt(out))
                /\ RLess(ClippedValue(r, c), FromInt(out + 1)))

(* The band of the second row is 1/3: its samples 65532, 1 and 103 became  *)
(* 65531 2/3, 2/3 and 102 2/3, and were stored as 65531, 0 and 102.        *)
C27_Witness ==
    /\ ret.op = "correct" /\ ret.applied /\ ~ret.auto_optimize
    /\ original.px = <<RowA, RowB>>
    /\ ret.black_w = 1 /\ ret.black_offset = 1 /\ ret.smooth_win = 3
    /\ ret.band[2] = Rat(1, 3)
    /\ ClippedValue(2, 3) = Rat(308, 3)
    /\ heap[ret.img].px[2] = <<65531, 0, 102>>

----------------------------------------------------------------------------
(* Claims about the debounced settings save, checked under SpecSave. *)

(* C28: a flush saves nothing when nothing was requested since the last    *)
(* flush that saved or, without force, before the latest request falls     *)
(* due, and then changes nothing; otherwise it performs exactly one save,  *)
(* the full one when one of the requests since had scope "full", the       *)
(* windowing one when all had scope "window", and leaves nothing pending   *)
(* and the scope "window".                                                 *)
C28_DebouncedSave ==
    ret.op = "flush" =>
        LET effective == /\ ret.before.extra_settings_keys
                         /\ ret.asked # {}
                         /\ ret.force \/ ret.before.now >= ret.due
        IN  /\ ~effective => ret.saves = <<>> /\ ret.after = ret.before
            /\ effective =>
                   /\ Len(ret.saves) = 1
                   /\ "full" \in ret.asked => ret.saves = <<"full">>
                   /\ ret.asked = {"window"} => ret.saves = <<"window">>
                   /\ ~ret.after.settings_save_pending
                   /\ ret.after.settings_save_scope = "window"

(* "full" and then "window" were requested and the flush ran the full      *)
(* save.                                                                   *)
C28_Witness ==
    /\ ret.op = "flush" /\ ~ret.force
    /\ ret.asked = {"full", "window"}
    /\ ret.before.settings_save_scope = "full"
    /\ ret.before.settings_save_deadline = 2 /\ ret.before.now = 2
    /\ ret.saves = <<"full">>
    /\ ~ret.after.settings_save_pending /\ ret.after.settings_save_scope = "window"

----------------------------------------------------------------------------
(* Claims about the image viewport, checked under SpecViewport. *)

ViewportOk(v) ==
    /\ One <= v.zoom /\ v.zoom <= 12 * One
    /\ 0 <= v.pan_x /\ v.pan_x + (One * One) \div v.zoom <= One
    /\ 0 <= v.pan_y /\ v.pan_y + (One * One) \div v.zoom <= One
    /\ v.zoom = One => v.pan_x = 0 /\ v.pan_y = 0

Pan(v) == <<v.pan_x, v.pan_y>>

(* What a step may do to the pan and to the drag. *)
DragRule ==
    /\ Pan(viewport') # Pan(viewport) /\ viewport'.zoom = viewport.zoom =>
           /\ trace.started
           /\ viewport.is_dragging
           /\ viewport.zoom > One
    /\ viewport'.is_dragging /\ ~viewport.is_dragging =>
           /\ viewport.zoom > One /\ viewport'.zoom = viewport.zoom
           /\ viewport'.drag_start_x \in 0..RectSize /\ viewport'.drag_start_y \in 0..RectSize
           /\ trace'.started
    /\ HandleRelease => ~viewport'.is_dragging /\ ~trace'.started

(* C29: after any sequence of handle_wheel, handle_click, handle_drag,     *)
(* handle_release and resize calls zoom is in [1.0, 12.0], pan_x and pan_y *)
(* are in [0, 1 - 1/zoom] and pan is (0, 0) whenever zoom is 1.0;          *)
(* handle_drag changes pan only while a drag that handle_click started at  *)
(* zoom > 1 over the image has not been released, and handle_release       *)
(* always ends the drag.  1/zoom is the fixed-point quotient.              *)
C29_ViewportInvariant ==
    ViewportOk(viewport) /\ [][ViewportOk(viewport') /\ DragRule]_vars

(* Zoomed in once by the wheel, a drag from the image's far corner to its  *)
(* origin moved the pan from zero to the end of its range.                 *)
C29_Witness ==
    /\ viewport.zoom = ZoomIn(One) /\ trace.started /\ viewport.is_dragging
    /\ viewport.drag_start_x = RectSize /\ viewport.drag_start_y = RectSize
    /\ viewport.drag_start_pan_x = 0 /\ viewport.drag_start_pan_y = 0
    /\ viewport.pan_x = 2 /\ viewport.pan_y = 2

(* The zoom reached its ceiling with the pan at the end of its range. *)
C29_WitnessCeiling == viewport.zoom = ZoomMax /\ viewport.pan_x = MaxPan(ZoomMax)

----------------------------------------------------------------------------
(* Claims about the camera REP server, checked under SpecServer. *)

(* A request that must be refused: an unknown or absent command, a value   *)
(* int() rejects.                                                          *)
Refused(msg) ==
    \/ msg.json = "garbled"
    \/ msg.cmd \notin Commands
    \/ /\ msg.cmd \in {"set_exposure_ms", "set_gain", "set_stack_n"}
       /\ msg.args.type = "dict"
       /\ msg.args.value.type \in {"word", "list"}

(* Every request taken from the socket is being handled by the live        *)
(* thread, or has had its one reply.                                       *)
OneReplyEach ==
    \/ trace.received = trace.replied /\ (server.alive => server.pc = "poll")
    \/ /\ trace.received = trace.replied + 1
       /\ server.alive /\ server.pc \in {"handle", "reply"}

(* The replies sent are {"ok": true, ...} or {"ok": false, "error": ...};  *)
(* a refused request, and take_snapshot whatever the camera, is answered   *)
(* with the settings as they were, the refused one ok = false; stack_n     *)
(* stays within [1, 999].                                                  *)
RepliesWellFormed ==
    /\ 1 <= server.stack_n /\ server.stack_n <= 999
    /\ ret.op = "request" /\ "reply" \in DOMAIN ret =>
           /\ ret.reply.ok \in BOOLEAN
           /\ ~ret.reply.ok => ret.reply.error # ""
           /\ Refused(ret.msg) => ~ret.reply.ok /\ ret.after = ret.before
           /\ ret.msg.json # "garbled" /\ ret.msg.cmd = "take_snapshot" =>
                  ret.after = ret.before

(* C30: for every request the server receives (any JSON value, any cmd,    *)
(* any args) it sends exactly one reply before it handles the next one,    *)
(* the reply being ok = true or ok = false with an error; an unknown       *)
(* command, an invalid value or take_snapshot without a camera is answered *)
(* ok = false with exposure, gain and stack_n unchanged, and stack_n stays *)
(* within [1, 999].                                                        *)
C30_RequestReply == OneReplyEach /\ RepliesWellFormed

====
